---- MODULE Spec2Model ----
(***************************************************************************)
(* youtube-watchparty: the Room State Authority (the socket.io server),    *)
(* the per-client reconciliation engine (the useVideoSync hook) and the    *)
(* wire between them.                                                      *)
(*                                                                         *)
(* Numbers.  Media positions are JavaScript numbers in seconds; they are   *)
(* kept here as integers in fixed point, UnitsPerSecond units per second,  *)
(* so 1.5 s is 1500 and 10 s is 10000.  Wall-clock readings (Date.now())   *)
(* are integers in milliseconds.                                           *)
(***************************************************************************)
EXTENDS Integers, Sequences, FiniteSets, TLC

VARIABLES
    now,        \* Date.now() at the authority, ms
    rooms,      \* the authority's `rooms` object: room id -> record
    socks,      \* per connection: the closure variables and socket.io rooms
    sent,       \* what the authority's last handler emitted: {[to, event, payload]}
    applied,    \* history: per room, the last video event the authority applied
    lastOp,     \* history: the last handler the authority ran
    eng,        \* per client: the engine's store fields, refs and pending timers
    emitted,    \* what the last engine step emitted on its socket, in order
    playerCalls,\* the player-control calls the last engine step made, in order
    lastEvt,    \* history: the last engine step and the message it handled
    c2s,        \* the wire, client to authority: per connection, in order
    s2c,        \* the wire, authority to client: per connection, in order
    intents,    \* user intents the clients have issued so far
    answered,   \* history: per room, the video:get_current answers since its last write
    mock,       \* the BroadcastChannel fallback: per tab its mock socket, and localStorage
    hb          \* per client: the hook's heartbeat intervals, followed in SpecMount

authorityVars == <<now, rooms, socks, sent, applied, lastOp>>
engineVars == <<eng, emitted, playerCalls, lastEvt>>
wireVars == <<c2s, s2c, intents>>
historyVars == <<answered>>
mockVars == <<mock>>
intervalVars == <<hb>>
vars == <<now, rooms, socks, sent, applied, lastOp,
          eng, emitted, playerCalls, lastEvt, c2s, s2c, intents, answered, mock, hb>>

-----------------------------------------------------------------------------
(* Bounds and input sets *)

MaxTicks == 1                   \* clock advances the model takes
ClockSteps == {5000}            \* ms between two handler runs
Conns == {"s1", "s2"}           \* socket connections
UserIdOf == [c \in Conns |-> IF c = "s1" THEN "u1" ELSE "u2"]
RoomIds == {"r1", "r2"}
AuthorityRooms == {"r1"}        \* the room ids clients of SpecAuthority name
NoVideo == ""                   \* null / undefined / '' video id (falsy)
VideoIds == {"X", "Y"}
AuthorityTimes == {0, 10000}    \* positions clients report to the authority
UnitsPerSecond == 1000          \* fixed-point units of one second of position

MaxNow == MaxTicks * 5000
Stamps == {t \in 0..MaxNow : t % 5000 = 0}

\* x / 1000 of a millisecond count, as a position
MsToSeconds(ms) == (ms * UnitsPerSecond) \div 1000

NoRoom == ""                    \* a missing (undefined) roomId
NoOp == [op |-> "none", roomId |-> NoRoom]
NothingApplied == [kind |-> "none"]

-----------------------------------------------------------------------------
(* socket.io room delivery *)

\* io.emit(event, payload): every connected socket, whatever its rooms
IoToEveryone(roomId, event, payload) ==
    {[to |-> d, event |-> event, payload |-> payload] :
        d \in {x \in Conns : socks[x].connected}}

\* io.to(roomId).emit(event, payload): every socket in the socket.io room
IoTo(roomId, event, payload) ==
    {[to |-> d, event |-> event, payload |-> payload] :
        d \in {x \in Conns : roomId \in socks[x].joined}}

\* socket.to(roomId).emit(event, payload): the room without the sender
SocketTo(c, roomId, event, payload) ==
    {[to |-> d, event |-> event, payload |-> payload] :
        d \in {x \in Conns \ {c} : roomId \in socks[x].joined}}

\* socket.emit(event, payload): the sender alone
SocketEmit(c, event, payload) ==
    {[to |-> c, event |-> event, payload |-> payload]}

RoomExists(roomId) == roomId \in DOMAIN rooms

NewRoom(t) ==
    [participants |-> <<>>, currentVideoId |-> NoVideo, currentTime |-> 0,
     isPlaying |-> FALSE, lastUpdated |-> t]

SetRoom(roomId, room) == [rooms EXCEPT ![roomId] = room]

DeleteRoom(rs, roomId) == [x \in (DOMAIN rs) \ {roomId} |-> rs[x]]

RemoveUser(ps, uid) == SelectSeq(ps, LAMBDA p : p.userId # uid)

-----------------------------------------------------------------------------
(* The authority's writes, one operator per handler body *)

\* ApplyLoad forgetting to reset the position
ApplyLoadKeepsTime(room, data, t) ==
    [room EXCEPT !.currentVideoId = data.videoId, !.isPlaying = TRUE, !.lastUpdated = t]

ApplyLoad(room, data, t) ==
    [room EXCEPT !.currentVideoId = data.videoId, !.currentTime = 0,
                 !.isPlaying = TRUE, !.lastUpdated = t]

\* ApplyPlay dropping an event stamped before the room's last write
ApplyPlayIfNewer(room, data, t) ==
    IF data.timestamp < room.lastUpdated THEN room
    ELSE [room EXCEPT !.isPlaying = TRUE, !.currentTime = data.time, !.lastUpdated = t]

ApplyPlay(room, data, t) ==
    [room EXCEPT !.isPlaying = TRUE, !.currentTime = data.time, !.lastUpdated = t]

ApplyPause(room, data, t) ==
    [room EXCEPT !.isPlaying = FALSE, !.currentTime = data.time, !.lastUpdated = t]

\* ApplySeek forgetting to restamp lastUpdated
ApplySeekNoStamp(room, data, t) ==
    [room EXCEPT !.currentTime = data.time]

ApplySeek(room, data, t) ==
    [room EXCEPT !.currentTime = data.time, !.lastUpdated = t]

ApplySync(room, data, t) ==
    [room EXCEPT !.currentVideoId = IF data.videoId # NoVideo THEN data.videoId ELSE @,
                 !.currentTime = data.time, !.isPlaying = data.isPlaying,
                 !.lastUpdated = t]

ApplyForceSync(room, data, t) ==
    [room EXCEPT !.currentTime = data.time, !.isPlaying = data.isPlaying,
                 !.currentVideoId = data.videoId, !.lastUpdated = t]

\* ProjectedTime with the elapsed time subtracted (lastUpdated - Date.now())
ProjectedTimeBackwards(room, t) ==
    IF room.isPlaying
    THEN room.currentTime - MsToSeconds(t - room.lastUpdated)
    ELSE room.currentTime

\* ProjectedTime without the elapsed time
ProjectedTimeStored(room, t) == room.currentTime

\* the time video:get_current answers with
ProjectedTime(room, t) ==
    IF room.isPlaying
    THEN room.currentTime + MsToSeconds(t - room.lastUpdated)
    ELSE room.currentTime

\* the time room:join sends to the joiner
JoinTime(room, t) == room.currentTime

\* history of the last applied video event of a room, from the event as received:
\* the value the event gives each canonical field (a field it does not carry
\* keeps the value of the event before it), the clock reading at its arrival,
\* whether its timestamp is older than that of the event applied before it, and
\* whether that earlier event came from another connection at the same instant
Record(c, roomId, kind, videoId, time, isPlaying, data) ==
    [applied EXCEPT ![roomId] =
        [kind |-> kind, by |-> c, at |-> now, videoId |-> videoId, time |-> time,
         isPlaying |-> isPlaying, timestamp |-> data.timestamp,
         older |-> IF @.kind = "none" THEN FALSE ELSE data.timestamp < @.timestamp,
         raced |-> IF @.kind = "none" THEN FALSE ELSE @.by # c /\ @.at = now]]

OldVideo(roomId) == IF applied[roomId].kind = "none" THEN NoVideo ELSE applied[roomId].videoId
OldPlaying(roomId) == IF applied[roomId].kind = "none" THEN FALSE ELSE applied[roomId].isPlaying

-----------------------------------------------------------------------------
(* Handlers of the authority *)

\* room:join with the userId its message carries
RoomJoinAs(c, roomId, uid) ==
    /\ socks[c].connected
    /\ socks[c].joined = {}
    /\ LET base == IF RoomExists(roomId) THEN rooms
                   ELSE (roomId :> NewRoom(now)) @@ rooms
           room == base[roomId]
           part == [userId |-> uid, isHost |-> Len(room.participants) = 0]
           after == [room EXCEPT !.participants = Append(@, part)]
           s2 == [socks EXCEPT ![c].userId = uid, ![c].currentRoom = roomId,
                               ![c].joined = @ \cup {roomId}]
       IN  /\ socks' = s2
           /\ rooms' = [base EXCEPT ![roomId] = after]
           /\ sent' = SocketEmit(c, "room:participants",
                                 [participants |-> after.participants])
                      \cup {[to |-> d, event |-> "room:user-joined",
                             payload |-> [participant |-> [userId |-> uid, isHost |-> FALSE]]] :
                             d \in {x \in Conns \ {c} : roomId \in socks[x].joined}}
                      \cup (IF after.currentVideoId # NoVideo
                            THEN SocketEmit(c, "video:current",
                                    [videoId |-> after.currentVideoId,
                                     time |-> JoinTime(after, now),
                                     isPlaying |-> after.isPlaying])
                            ELSE {})
           /\ applied' = IF RoomExists(roomId) THEN applied
                         ELSE [applied EXCEPT ![roomId] = NothingApplied]
    /\ lastOp' = [op |-> "room:join", roomId |-> roomId]
    /\ UNCHANGED now

RoomJoin(c, roomId) == RoomJoinAs(c, roomId, UserIdOf[c])

VideoGetCurrent(c, data) ==
    /\ socks[c].connected
    /\ sent' = IF RoomExists(data.roomId) /\ rooms[data.roomId].currentVideoId # NoVideo
               THEN SocketEmit(c, "video:current",
                        [videoId |-> rooms[data.roomId].currentVideoId,
                         time |-> ProjectedTime(rooms[data.roomId], now),
                         isPlaying |-> rooms[data.roomId].isPlaying])
               ELSE {}
    /\ lastOp' = [op |-> "video:get_current", roomId |-> data.roomId]
    /\ UNCHANGED <<now, rooms, socks, applied>>

VideoLoad(c, data) ==
    /\ socks[c].connected
    /\ IF RoomExists(data.roomId)
       THEN /\ rooms' = SetRoom(data.roomId, ApplyLoad(rooms[data.roomId], data, now))
            /\ sent' = IoTo(data.roomId, "video:load", [videoId |-> data.videoId])
            /\ applied' = Record(c, data.roomId, "video:load", data.videoId, 0, TRUE, data)
       ELSE /\ sent' = {}
            /\ UNCHANGED <<rooms, applied>>
    /\ lastOp' = [op |-> "video:load", roomId |-> data.roomId]
    /\ UNCHANGED <<now, socks>>

VideoPlay(c, data) ==
    /\ socks[c].connected
    /\ IF RoomExists(data.roomId)
       THEN /\ rooms' = SetRoom(data.roomId, ApplyPlay(rooms[data.roomId], data, now))
            /\ sent' = IoTo(data.roomId, "video:play", data)
            /\ applied' = Record(c, data.roomId, "video:play", OldVideo(data.roomId),
                                 data.time, TRUE, data)
       ELSE /\ sent' = SocketTo(c, socks[c].currentRoom, "video:play", data)
            /\ UNCHANGED <<rooms, applied>>
    /\ lastOp' = [op |-> "video:play", roomId |-> data.roomId]
    /\ UNCHANGED <<now, socks>>

VideoPause(c, data) ==
    /\ socks[c].connected
    /\ IF RoomExists(data.roomId)
       THEN /\ rooms' = SetRoom(data.roomId, ApplyPause(rooms[data.roomId], data, now))
            /\ sent' = IoTo(data.roomId, "video:pause", data)
            /\ applied' = Record(c, data.roomId, "video:pause", OldVideo(data.roomId),
                                 data.time, FALSE, data)
       ELSE /\ sent' = SocketTo(c, socks[c].currentRoom, "video:pause", data)
            /\ UNCHANGED <<rooms, applied>>
    /\ lastOp' = [op |-> "video:pause", roomId |-> data.roomId]
    /\ UNCHANGED <<now, socks>>

VideoSeek(c, data) ==
    /\ socks[c].connected
    /\ IF RoomExists(data.roomId)
       THEN /\ rooms' = SetRoom(data.roomId, ApplySeek(rooms[data.roomId], data, now))
            /\ sent' = IoTo(data.roomId, "video:seek", data)
            /\ applied' = Record(c, data.roomId, "video:seek", OldVideo(data.roomId),
                                 data.time, OldPlaying(data.roomId), data)
       ELSE /\ sent' = SocketTo(c, socks[c].currentRoom, "video:seek", data)
            /\ UNCHANGED <<rooms, applied>>
    /\ lastOp' = [op |-> "video:seek", roomId |-> data.roomId]
    /\ UNCHANGED <<now, socks>>

VideoSync(c, data) ==
    /\ socks[c].connected
    /\ IF RoomExists(data.roomId)
       THEN /\ rooms' = SetRoom(data.roomId, ApplySync(rooms[data.roomId], data, now))
            /\ sent' = IoTo(data.roomId, "video:sync", data)
            /\ applied' = Record(c, data.roomId, "video:sync",
                                 IF data.videoId # NoVideo THEN data.videoId
                                 ELSE OldVideo(data.roomId),
                                 data.time, data.isPlaying, data)
       ELSE /\ sent' = SocketTo(c, socks[c].currentRoom, "video:sync", data)
            /\ UNCHANGED <<rooms, applied>>
    /\ lastOp' = [op |-> "video:sync", roomId |-> data.roomId]
    /\ UNCHANGED <<now, socks>>

VideoForceSync(c, data) ==
    /\ socks[c].connected
    /\ IF RoomExists(data.roomId)
       THEN /\ rooms' = SetRoom(data.roomId, ApplyForceSync(rooms[data.roomId], data, now))
            /\ sent' = IoTo(data.roomId, "video:force_sync", data)
            /\ applied' = Record(c, data.roomId, "video:force_sync", data.videoId,
                                 data.time, data.isPlaying, data)
       ELSE /\ sent' = {}
            /\ UNCHANGED <<rooms, applied>>
    /\ lastOp' = [op |-> "video:force_sync", roomId |-> data.roomId]
    /\ UNCHANGED <<now, socks>>

\* Depart without the delete of the emptied room
DepartKeepsRoom(c, roomId, uid) ==
    /\ sent' = SocketTo(c, roomId, "room:user-left", [userId |-> uid])
    /\ rooms' = [rooms EXCEPT ![roomId].participants = RemoveUser(@, uid)]
    /\ UNCHANGED applied

\* the filter, the room:user-left broadcast and the delete of both leave paths
Depart(c, roomId, uid) ==
    LET ps == RemoveUser(rooms[roomId].participants, uid)
    IN  /\ sent' = SocketTo(c, roomId, "room:user-left", [userId |-> uid])
        /\ IF Len(ps) = 0
           THEN /\ rooms' = DeleteRoom(rooms, roomId)
                /\ applied' = [applied EXCEPT ![roomId] = NothingApplied]
           ELSE /\ rooms' = [rooms EXCEPT ![roomId].participants = ps]
                /\ UNCHANGED applied

RoomLeave(c, roomId, uid) ==
    /\ socks[c].connected
    /\ IF RoomExists(roomId)
       THEN Depart(c, roomId, uid)
       ELSE /\ sent' = {}
            /\ UNCHANGED <<rooms, applied>>
    /\ socks' = [socks EXCEPT ![c].joined = @ \ {roomId}]
    /\ lastOp' = [op |-> "room:leave", roomId |-> roomId]
    /\ UNCHANGED now

Disconnect(c) ==
    /\ socks[c].connected
    /\ LET cur == socks[c].currentRoom
       IN  IF cur # "" /\ RoomExists(cur)
           THEN Depart(c, cur, socks[c].userId)
           ELSE /\ sent' = {}
                /\ UNCHANGED <<rooms, applied>>
    /\ socks' = [socks EXCEPT ![c].joined = {}, ![c].connected = FALSE]
    /\ lastOp' = [op |-> "disconnect", roomId |-> socks[c].currentRoom]
    /\ UNCHANGED now

\* wall-clock time passing between two handler runs
Tick ==
    /\ now < MaxNow
    /\ \E d \in ClockSteps : now' = now + d
    /\ sent' = {}
    /\ lastOp' = NoOp
    /\ UNCHANGED <<rooms, socks, applied>>

-----------------------------------------------------------------------------
(* The reconciliation engine: the useVideoSync hook of one client *)

TIME_SYNC_THRESHOLD == 1500     \* SYNC_CONFIG.TIME_SYNC_THRESHOLD, 1.5 s
MaxTimers == 2                  \* pending settle timers of one engine
EngineRoom == "r1"              \* the roomId the hook is given
EngineTimes == {0, 1500, 2000}  \* positions in messages and player readings

Abs(x) == IF x < 0 THEN -x ELSE x

\* a threshold test that fires on any difference
DiffersAtAll(a, b) == a # b

\* Math.abs(time - currentTime) > SYNC_CONFIG.TIME_SYNC_THRESHOLD
ExceedsThreshold(a, b) == Abs(a - b) > TIME_SYNC_THRESHOLD

SeekToCall(t) == [fn |-> "seekTo", arg |-> t]
PlayCall == [fn |-> "playVideo"]
PauseCall == [fn |-> "pauseVideo"]

\* setTimeout(() => { seeking.current = false; ... }, 500)
SettleTimer == [then |-> "none"]
SettleThen(isPlaying) == [then |-> IF isPlaying THEN "playVideo" ELSE "pauseVideo"]

NewEngine ==
    [currentVideoId |-> NoVideo, isPlaying |-> FALSE, currentTime |-> 0,
     isReady |-> FALSE, isConnected |-> TRUE, seeking |-> FALSE,
     syncPending |-> FALSE, forceResumeOnFocus |-> FALSE, timers |-> <<>>,
     hidden |-> FALSE, timeBeforeBlur |-> 0, wasPlayingBeforeBlur |-> FALSE,
     blurHandled |-> FALSE, lastVisibilityChange |-> 0, resumeTimers |-> <<>>,
     lastUpdateTime |-> 0, lastForceSyncTime |-> 0, joinTimers |-> <<>>]

\* the store fields an engine reconciles
Local(e) == [videoId |-> e.currentVideoId, time |-> e.currentTime,
             isPlaying |-> e.isPlaying]

\* the result of a handler body: the engine after it and the player calls it made
Outcome(e, calls) == [e |-> e, calls |-> calls]

\* seeking.current = true; playerRef.current.seekTo(time); setTimeout(..., 500)
HardSeek(e, t, timer) ==
    Outcome([e EXCEPT !.seeking = TRUE, !.timers = Append(@, timer)],
            <<SeekToCall(t)>>)

HandleVideoLoad(e, m) ==
    IF m.videoId # e.currentVideoId
    THEN Outcome([e EXCEPT !.currentVideoId = m.videoId, !.currentTime = 0,
                           !.isPlaying = TRUE], <<>>)
    ELSE Outcome(e, <<>>)

HandleVideoPlay(e, m) ==
    LET e1 == [e EXCEPT !.isPlaying = TRUE]
        o  == IF ExceedsThreshold(m.time, e.currentTime)
              THEN IF e.isReady
                   THEN HardSeek([e1 EXCEPT !.currentTime = m.time], m.time, SettleTimer)
                   ELSE Outcome([e1 EXCEPT !.currentTime = m.time], <<>>)
              ELSE Outcome(e1, <<>>)
    IN  Outcome(o.e, IF e.isReady THEN Append(o.calls, PlayCall) ELSE o.calls)

\* handleVideoPause that pauses without correcting the position
HandleVideoPauseNoSeek(e, m) ==
    Outcome([e EXCEPT !.isPlaying = FALSE],
            IF e.isReady THEN <<PauseCall>> ELSE <<>>)

HandleVideoPause(e, m) ==
    LET e1 == [e EXCEPT !.isPlaying = FALSE]
        o  == IF ExceedsThreshold(m.time, e.currentTime)
              THEN IF e.isReady
                   THEN HardSeek([e1 EXCEPT !.currentTime = m.time], m.time, SettleTimer)
                   ELSE Outcome([e1 EXCEPT !.currentTime = m.time], <<>>)
              ELSE Outcome(e1, <<>>)
    IN  Outcome(o.e, IF e.isReady THEN Append(o.calls, PauseCall) ELSE o.calls)

\* handleVideoSeek correcting only past the drift threshold
HandleVideoSeekThresholded(e, m) ==
    IF ExceedsThreshold(m.time, e.currentTime)
    THEN IF e.isReady
         THEN HardSeek([e EXCEPT !.currentTime = m.time], m.time, SettleTimer)
         ELSE Outcome([e EXCEPT !.currentTime = m.time], <<>>)
    ELSE Outcome(e, <<>>)

HandleVideoSeek(e, m) ==
    LET e1 == [e EXCEPT !.currentTime = m.time]
    IN  IF e.isReady THEN HardSeek(e1, m.time, SettleTimer) ELSE Outcome(e1, <<>>)

HandleVideoSync(e, m) ==
    LET e0 == IF e.syncPending
              THEN [e EXCEPT !.syncPending = FALSE, !.forceResumeOnFocus = FALSE]
              ELSE e
    IN  IF m.videoId # NoVideo /\ m.videoId # e.currentVideoId
        THEN Outcome([e0 EXCEPT !.currentVideoId = m.videoId, !.currentTime = 0,
                                !.isPlaying = m.isPlaying], <<>>)
        ELSE LET flip  == m.isPlaying # e.isPlaying
                 e1    == [e0 EXCEPT !.isPlaying = m.isPlaying]
                 calls == IF flip /\ e.isReady
                          THEN <<IF m.isPlaying THEN PlayCall ELSE PauseCall>>
                          ELSE <<>>
             IN  IF ExceedsThreshold(m.time, e.currentTime)
                 THEN IF e.isReady
                      THEN LET o == HardSeek([e1 EXCEPT !.currentTime = m.time],
                                             m.time, SettleTimer)
                           IN  Outcome(o.e, calls \o o.calls)
                      ELSE Outcome([e1 EXCEPT !.currentTime = m.time], calls)
                 ELSE Outcome(e1, calls)

HandleForceSync(e, m) ==
    IF m.videoId # NoVideo /\ m.videoId # e.currentVideoId
    THEN Outcome([e EXCEPT !.currentVideoId = m.videoId, !.currentTime = 0,
                           !.isPlaying = m.isPlaying], <<>>)
    ELSE LET e1 == [e EXCEPT !.currentTime = m.time, !.isPlaying = m.isPlaying]
         IN  IF e.isReady THEN HardSeek(e1, m.time, SettleThen(m.isPlaying))
             ELSE Outcome(e1, <<>>)

\* the play/pause notification effect: it runs after the render that follows
\* a change of isConnected, isReady, isPlaying or currentTime
Notify(old, new) ==
    IF /\ <<new.isConnected, new.isReady, new.isPlaying, new.currentTime>> #
            <<old.isConnected, old.isReady, old.isPlaying, old.currentTime>>
       /\ new.isConnected /\ new.isReady /\ ~new.seeking
    THEN <<[event |-> IF new.isPlaying THEN "video:play" ELSE "video:pause",
            data |-> [roomId |-> EngineRoom, time |-> new.currentTime,
                      timestamp |-> now]]>>
    ELSE <<>>

\* socket.emit(event, data) of a callback, suppressed while disconnected
Emit(e, event, data) ==
    IF e.isConnected THEN <<[event |-> event, data |-> data]>> ELSE <<>>

\* one step of client c: it leaves the engine as o.e, having emitted `first`
\* from the callback itself and then what the notification effect adds.
\* lastEvt keeps the step's name and message, the store fields before a
\* video:sync or video:seek, whether no timer has fired since (fresh), and
\* whether the step before it handled the same message (repeat)
EngineStep(c, kind, m, o, first) ==
    /\ Len(o.e.timers) <= MaxTimers
    /\ eng' = [eng EXCEPT ![c] = o.e]
    /\ playerCalls' = o.calls
    /\ emitted' = first \o Notify(eng[c], o.e)
    /\ lastEvt' = [client |-> c, kind |-> kind, msg |-> m,
                   before |-> IF kind \in {"video:sync", "video:seek"}
                              THEN Local(eng[c]) ELSE Local(NewEngine),
                   fresh |-> TRUE,
                   repeat |-> /\ lastEvt.client = c
                              /\ lastEvt.fresh
                              /\ lastEvt.kind = kind
                              /\ lastEvt.msg = m]

NoMsg == [none |-> TRUE]
NoEvt == [client |-> "", kind |-> "none", msg |-> NoMsg,
          before |-> Local(NewEngine), fresh |-> FALSE, repeat |-> FALSE]

\* inbound events; the listeners are attached only while connected
OnVideoLoad(c, m) ==
    /\ eng[c].isConnected
    /\ EngineStep(c, "video:load", m, HandleVideoLoad(eng[c], m), <<>>)

OnVideoPlay(c, m) ==
    /\ eng[c].isConnected
    /\ EngineStep(c, "video:play", m, HandleVideoPlay(eng[c], m), <<>>)

OnVideoPause(c, m) ==
    /\ eng[c].isConnected
    /\ EngineStep(c, "video:pause", m, HandleVideoPause(eng[c], m), <<>>)

OnVideoSeek(c, m) ==
    /\ eng[c].isConnected
    /\ EngineStep(c, "video:seek", m, HandleVideoSeek(eng[c], m), <<>>)

OnVideoSync(c, m) ==
    /\ eng[c].isConnected
    /\ EngineStep(c, "video:sync", m, HandleVideoSync(eng[c], m), <<>>)

OnForceSync(c, m) ==
    /\ eng[c].isConnected
    /\ EngineStep(c, "video:force_sync", m, HandleForceSync(eng[c], m), <<>>)

\* the oldest pending settle timer fires
SettleTimerFires(c) ==
    /\ eng[c].timers # <<>>
    /\ LET t == Head(eng[c].timers)
       IN  /\ eng' = [eng EXCEPT ![c].seeking = FALSE, ![c].timers = Tail(@)]
           /\ playerCalls' = IF t.then # "none" /\ eng[c].isReady
                             THEN <<[fn |-> t.then]>> ELSE <<>>
    /\ emitted' = <<>>
    /\ lastEvt' = [lastEvt EXCEPT !.fresh = FALSE]

\* setPlayerRef(player) and setPlayerRef(null)
SetPlayerRef(c, attach) ==
    /\ eng[c].isReady # attach
    /\ EngineStep(c, "setPlayerRef", [attach |-> attach],
                  Outcome([eng[c] EXCEPT !.isReady = attach], <<>>),
                  IF attach
                  THEN Emit(eng[c], "video:get_current",
                            [roomId |-> EngineRoom, timestamp |-> now])
                  ELSE <<>>)

LoadVideo(c, videoId) ==
    EngineStep(c, "loadVideo", [videoId |-> videoId],
               Outcome([eng[c] EXCEPT !.currentVideoId = videoId, !.isPlaying = TRUE,
                                      !.currentTime = 0], <<>>),
               Emit(eng[c], "video:load",
                    [roomId |-> EngineRoom, videoId |-> videoId, timestamp |-> now]))

PlayVideo(c) ==
    EngineStep(c, "playVideo", NoMsg,
               Outcome([eng[c] EXCEPT !.isPlaying = TRUE],
                       IF eng[c].isReady THEN <<PlayCall>> ELSE <<>>),
               Emit(eng[c], "video:play",
                    [roomId |-> EngineRoom, time |-> eng[c].currentTime,
                     timestamp |-> now]))

\* reading is what playerRef.current.getCurrentTime() returns
PauseVideo(c, reading) ==
    EngineStep(c, "pauseVideo", NoMsg,
               Outcome([eng[c] EXCEPT !.isPlaying = FALSE],
                       IF eng[c].isReady THEN <<PauseCall>> ELSE <<>>),
               Emit(eng[c], "video:pause",
                    [roomId |-> EngineRoom,
                     time |-> IF eng[c].isReady /\ reading # 0 THEN reading
                              ELSE eng[c].currentTime,
                     timestamp |-> now]))

SeekTo(c, seconds) ==
    LET e1 == [eng[c] EXCEPT !.currentTime = seconds, !.seeking = TRUE]
    IN  EngineStep(c, "seekTo", [time |-> seconds],
                   IF eng[c].isReady
                   THEN Outcome([e1 EXCEPT !.timers = Append(@, SettleTimer)],
                                <<SeekToCall(seconds)>>)
                   ELSE Outcome(e1, <<>>),
                   Emit(eng[c], "video:seek",
                        [roomId |-> EngineRoom, time |-> seconds, timestamp |-> now]))

-----------------------------------------------------------------------------
(* Tab visibility: handleVisibilityChange and the timers it starts *)

RapidChange == 100              \* ms: a change sooner than this after the last is skipped
LongAbsence == 60 * UnitsPerSecond   \* an absence of 60 s or more is not projected

\* the timers of the resume path, each with what its closure captured
SyncWait == [kind |-> "syncWait", target |-> 0, isPlaying |-> FALSE]
ResumeSeek(target, isPlaying) ==
    [kind |-> "resumeSeek", target |-> target, isPlaying |-> isPlaying]
ResumeState(isPlaying) == [kind |-> "resumeState", target |-> 0, isPlaying |-> isPlaying]

\* document.hidden became true: snapshot and a last video:sync
OnHidden(e, reading, t) ==
    LET playerTime == IF e.isReady /\ reading > 0 THEN reading ELSE e.currentTime
    IN  [e |-> [e EXCEPT !.timeBeforeBlur = playerTime,
                         !.wasPlayingBeforeBlur = e.isPlaying,
                         !.blurHandled = TRUE],
         calls |-> <<>>,
         out |-> IF e.isConnected /\ ~e.syncPending /\ e.currentVideoId # NoVideo
                 THEN <<[event |-> "video:sync",
                         data |-> [roomId |-> EngineRoom, time |-> playerTime,
                                   isPlaying |-> e.isPlaying,
                                   videoId |-> e.currentVideoId, timestamp |-> t]]>>
                 ELSE <<>>]

\* document.hidden became false; e.lastVisibilityChange is already this change
OnVisible(e, t) ==
    IF ~e.blurHandled THEN [e |-> e, calls |-> <<>>, out |-> <<>>]
    ELSE
    LET timeElapsed == MsToSeconds(t - e.lastVisibilityChange)
        targetTime  == IF e.wasPlayingBeforeBlur /\ timeElapsed < LongAbsence
                       THEN e.timeBeforeBlur + timeElapsed
                       ELSE e.timeBeforeBlur
        asks        == e.isConnected /\ e.currentVideoId # NoVideo
        e1 == IF asks
              THEN [e EXCEPT !.syncPending = TRUE,
                             !.resumeTimers = Append(@, SyncWait)]
              ELSE [e EXCEPT !.forceResumeOnFocus = TRUE]
        e2 == IF targetTime > 0 /\ e1.isReady /\ e1.forceResumeOnFocus
              THEN [e1 EXCEPT !.seeking = TRUE,
                              !.resumeTimers = Append(@, ResumeSeek(targetTime, e.isPlaying))]
              ELSE e1
    IN  [e |-> [e2 EXCEPT !.blurHandled = FALSE],
         calls |-> <<>>,
         out |-> IF asks
                 THEN <<[event |-> "video:get_current",
                         data |-> [roomId |-> EngineRoom, timestamp |-> t]]>>
                 ELSE <<>>]

\* the visibilitychange listener, attached while the player is ready;
\* reading is what playerRef.current.getCurrentTime() returns
HandleVisibilityChange(c, hiddenNow, reading) ==
    /\ eng[c].isReady
    /\ eng[c].hidden # hiddenNow
    /\ LET since == now - eng[c].lastVisibilityChange
           e0 == [eng[c] EXCEPT !.lastVisibilityChange = now, !.hidden = hiddenNow]
           r  == IF since < RapidChange THEN [e |-> e0, calls |-> <<>>, out |-> <<>>]
                 ELSE IF hiddenNow THEN OnHidden(e0, reading, now)
                 ELSE OnVisible(e0, now)
       IN  /\ Len(r.e.resumeTimers) <= MaxTimers
           /\ EngineStep(c, "visibilitychange",
                         [hidden |-> hiddenNow, since |-> since,
                          seeks |-> /\ Len(r.e.resumeTimers) > Len(eng[c].resumeTimers)
                                    /\ r.e.resumeTimers[Len(r.e.resumeTimers)].kind = "resumeSeek"],
                         Outcome(r.e, r.calls), r.out)

\* a resume timer fires: of the timers one resume starts, the seek (300 ms)
\* and the restore of the play state (300 ms after the seek) come before the
\* end of the wait for video:current (1 s)
ResumeTimerFires(c) ==
    /\ eng[c].resumeTimers # <<>>
    /\ LET ts   == eng[c].resumeTimers
           i    == IF \E k \in DOMAIN ts : ts[k].kind # "syncWait"
                   THEN CHOOSE k \in DOMAIN ts :
                          /\ ts[k].kind # "syncWait"
                          /\ \A j \in DOMAIN ts : ts[j].kind # "syncWait" => k <= j
                   ELSE 1
           tm   == ts[i]
           rest == [k \in 1..(Len(ts) - 1) |-> IF k < i THEN ts[k] ELSE ts[k + 1]]
           e    == eng[c]
       IN  /\ eng' = [eng EXCEPT ![c] =
                 IF tm.kind = "syncWait"
                 THEN IF e.syncPending
                      THEN [e EXCEPT !.syncPending = FALSE, !.forceResumeOnFocus = TRUE,
                                     !.resumeTimers = rest]
                      ELSE [e EXCEPT !.resumeTimers = rest]
                 ELSE IF tm.kind = "resumeSeek"
                 THEN IF e.isReady
                      THEN [e EXCEPT !.resumeTimers = Append(rest, ResumeState(tm.isPlaying))]
                      ELSE [e EXCEPT !.resumeTimers = rest]
                 ELSE [e EXCEPT !.seeking = FALSE, !.forceResumeOnFocus = FALSE,
                                !.resumeTimers = rest]]
           /\ playerCalls' =
                 IF tm.kind = "resumeSeek" /\ e.isReady THEN <<SeekToCall(tm.target)>>
                 ELSE IF tm.kind = "resumeState" /\ e.isReady
                 THEN <<IF e.wasPlayingBeforeBlur \/ tm.isPlaying THEN PlayCall ELSE PauseCall>>
                 ELSE <<>>
    /\ emitted' = <<>>
    /\ lastEvt' = [lastEvt EXCEPT !.fresh = FALSE]

-----------------------------------------------------------------------------
(* The heartbeat, the forced synchronisation and the delayed broadcast *)

MaxJoinTimers == 1              \* pending room:user-joined timers of one engine

\* the payload of video:sync and video:force_sync: the player's reading and
\* the isPlaying and currentVideoId of the closure that emits it
StateReport(videoId, isPlaying, reading) ==
    [roomId |-> EngineRoom, time |-> reading, isPlaying |-> isPlaying,
     videoId |-> videoId, timestamp |-> now]

\* Math.abs(currentPlayerTime - lastUpdateTime) > 1
MovedSince(reading, last) == Abs(reading - last) > 1 * UnitsPerSecond

\* one tick of the setInterval of the periodic effect; the interval exists
\* while the engine is connected and ready.  reading is what
\* playerRef.current.getCurrentTime() returns
HeartbeatTick(c, reading) ==
    /\ eng[c].isConnected
    /\ eng[c].isReady
    /\ LET e    == eng[c]
           fire == ~e.seeking /\ MovedSince(reading, e.lastUpdateTime)
       IN  EngineStep(c, "heartbeat",
                      [reading |-> reading, seeking |-> e.seeking,
                       isPlaying |-> e.isPlaying, videoId |-> e.currentVideoId],
                      Outcome(IF fire
                              THEN [e EXCEPT !.currentTime = reading,
                                             !.lastUpdateTime = reading]
                              ELSE e, <<>>),
                      IF fire
                      THEN <<[event |-> "video:sync",
                              data |-> StateReport(e.currentVideoId, e.isPlaying, reading)]>>
                      ELSE <<>>)

\* forceSyncAll that emits whatever the connection and the player are
ForceSyncAllUnguarded(c, reading) ==
    EngineStep(c, "synchronizeNow", [reading |-> reading],
               Outcome([eng[c] EXCEPT !.lastForceSyncTime = now], <<>>),
               <<[event |-> "video:force_sync",
                  data |-> StateReport(eng[c].currentVideoId, eng[c].isPlaying, reading)]>>)

ForceSyncAll(c, reading) ==
    IF eng[c].isConnected /\ eng[c].isReady
    THEN EngineStep(c, "synchronizeNow", [reading |-> reading],
                    Outcome([eng[c] EXCEPT !.lastForceSyncTime = now], <<>>),
                    <<[event |-> "video:force_sync",
                       data |-> StateReport(eng[c].currentVideoId, eng[c].isPlaying,
                                            reading)]>>)
    ELSE EngineStep(c, "synchronizeNow", [reading |-> reading],
                    Outcome(eng[c], <<>>), <<>>)

SynchronizeNow(c, reading) == ForceSyncAll(c, reading)

\* broadcastState as the closure k of one render sees it: isConnected, isReady,
\* isPlaying and currentVideoId are k's, playerRef.current is the engine's
BroadcastState(e, k, reading) ==
    IF k.isConnected /\ k.isReady /\ e.isReady
    THEN <<[event |-> "video:sync",
            data |-> StateReport(k.videoId, k.isPlaying, reading)]>>
    ELSE <<>>

\* room:user-joined arrives: handleUserJoined, registered while connected and
\* ready, starts the 1 s timer that will call the broadcastState of its render
HandleUserJoined(c) ==
    /\ eng[c].isConnected
    /\ eng[c].isReady
    /\ Len(eng[c].joinTimers) < MaxJoinTimers
    /\ EngineStep(c, "room:user-joined", NoMsg,
                  Outcome([eng[c] EXCEPT !.joinTimers =
                              Append(@, [isConnected |-> eng[c].isConnected,
                                         isReady |-> eng[c].isReady,
                                         isPlaying |-> eng[c].isPlaying,
                                         videoId |-> eng[c].currentVideoId])],
                          <<>>),
                  <<>>)

\* the oldest of those timers fires
JoinTimerFires(c, reading) ==
    /\ eng[c].joinTimers # <<>>
    /\ EngineStep(c, "joinTimer", [reading |-> reading],
                  Outcome([eng[c] EXCEPT !.joinTimers = Tail(@)], <<>>),
                  BroadcastState(eng[c], Head(eng[c].joinTimers), reading))

-----------------------------------------------------------------------------
(* The room page around the hook: connectivity, the join effect, the       *)
(* video:current listener and the effect that loads the current video      *)

\* the load effect calls loadVideo(currentVideoId) once the player is ready
\* and a video is set; it runs again when isReady, currentVideoId or the
\* identity of loadVideo (its isConnected) has changed
LoadEffectRuns(e) == e.isReady /\ e.currentVideoId # NoVideo

LoadEffect(e) ==
    IF LoadEffectRuns(e) THEN [e EXCEPT !.isPlaying = TRUE, !.currentTime = 0] ELSE e

LoadEffectEmits(e) ==
    IF LoadEffectRuns(e)
    THEN Emit(e, "video:load",
              [roomId |-> EngineRoom, videoId |-> e.currentVideoId, timestamp |-> now])
    ELSE <<>>

\* socket.emit('room:join', ...); socket.emit('video:get_current', { roomId })
JoinEffectEmits(c) ==
    <<[event |-> "room:join", data |-> [roomId |-> EngineRoom, userId |-> UserIdOf[c]]],
      [event |-> "video:get_current", data |-> [roomId |-> EngineRoom]]>>

\* the cleanup of the join effect
JoinCleanupEmits(c) ==
    <<[event |-> "room:leave", data |-> [roomId |-> EngineRoom, userId |-> UserIdOf[c]]]>>

\* one step of the page of client c: the callback leaves the engine as e1
\* having emitted `first`; the render that follows runs the notification
\* effect, the page's own emits, the load effect when reload holds, and the
\* notification effect again for what the load effect changed
PageStep(c, kind, m, e1, first, page, reload) ==
    LET e2 == IF reload THEN LoadEffect(e1) ELSE e1
    IN  /\ eng' = [eng EXCEPT ![c] = e2]
        /\ playerCalls' = <<>>
        /\ emitted' = first \o Notify(eng[c], e1) \o page
                            \o (IF reload THEN LoadEffectEmits(e1) ELSE <<>>)
                            \o Notify(e1, e2)
        /\ lastEvt' = [client |-> c, kind |-> kind, msg |-> m,
                       before |-> Local(eng[c]), fresh |-> TRUE, repeat |-> FALSE]

\* the socket's connect and disconnect listeners: setIsConnected(up)
SetConnected(c, up) ==
    /\ eng[c].isConnected # up
    /\ PageStep(c, "connectivity", [up |-> up],
                [eng[c] EXCEPT !.isConnected = up], <<>>,
                IF up THEN JoinEffectEmits(c) ELSE JoinCleanupEmits(c), TRUE)

\* the player component hands its player to setPlayerRef, or null
PlayerAttached(c, attach) ==
    /\ eng[c].isReady # attach
    /\ PageStep(c, "setPlayerRef", [attach |-> attach],
                [eng[c] EXCEPT !.isReady = attach],
                IF attach
                THEN Emit(eng[c], "video:get_current",
                          [roomId |-> EngineRoom, timestamp |-> now])
                ELSE <<>>,
                <<>>, TRUE)

\* the page's video:current listener, attached while connected
OnVideoCurrent(c, m) ==
    /\ eng[c].isConnected
    /\ PageStep(c, "video:current", m,
                IF m.videoId # NoVideo THEN [eng[c] EXCEPT !.currentVideoId = m.videoId]
                ELSE eng[c],
                <<>>, <<>>,
                m.videoId # NoVideo /\ m.videoId # eng[c].currentVideoId)

-----------------------------------------------------------------------------
(* A player whose control calls throw.  What a callback did before the     *)
(* throw stays done: store updates, refs and emits; what follows the call  *)
(* in its block does not run.  caught tells whether the call sits in a try *)
(* block of the hook; lastEvt.msg carries it.                               *)

Thrown(m, caught) == m @@ [threw |-> TRUE, caught |-> caught]

\* seeking.current = true; playerRef.current.seekTo(time) throws: the settle
\* timer of the next statement is never started
SeekThrows(e) == [e EXCEPT !.seeking = TRUE]

\* handleVideoSeek, the player's seekTo throwing
OnVideoSeekThrows(c, m) ==
    /\ eng[c].isConnected
    /\ eng[c].isReady
    /\ EngineStep(c, "video:seek", Thrown(m, FALSE),
                  Outcome(SeekThrows([eng[c] EXCEPT !.currentTime = m.time]),
                          <<SeekToCall(m.time)>>),
                  <<>>)

\* handleForceSync for the video already loaded, the player's seekTo throwing
OnForceSyncThrows(c, m) ==
    /\ eng[c].isConnected
    /\ eng[c].isReady
    /\ ~(m.videoId # NoVideo /\ m.videoId # eng[c].currentVideoId)
    /\ EngineStep(c, "video:force_sync", Thrown(m, FALSE),
                  Outcome(SeekThrows([eng[c] EXCEPT !.currentTime = m.time,
                                                    !.isPlaying = m.isPlaying]),
                          <<SeekToCall(m.time)>>),
                  <<>>)

\* seekTo(seconds), the player's seekTo throwing
SeekToThrows(c, seconds) ==
    /\ eng[c].isReady
    /\ EngineStep(c, "seekTo", Thrown([time |-> seconds], FALSE),
                  Outcome(SeekThrows([eng[c] EXCEPT !.currentTime = seconds]),
                          <<SeekToCall(seconds)>>),
                  Emit(eng[c], "video:seek",
                       [roomId |-> EngineRoom, time |-> seconds, timestamp |-> now]))

\* playVideo(), the player's playVideo throwing
PlayVideoThrows(c) ==
    /\ eng[c].isReady
    /\ EngineStep(c, "playVideo", Thrown(NoMsg, FALSE),
                  Outcome([eng[c] EXCEPT !.isPlaying = TRUE], <<PlayCall>>),
                  Emit(eng[c], "video:play",
                       [roomId |-> EngineRoom, time |-> eng[c].currentTime,
                        timestamp |-> now]))

\* a heartbeat tick, the player's getCurrentTime throwing inside the try block
HeartbeatThrows(c) ==
    /\ eng[c].isConnected
    /\ eng[c].isReady
    /\ ~eng[c].seeking
    /\ EngineStep(c, "heartbeat", Thrown(NoMsg, TRUE), Outcome(eng[c], <<>>), <<>>)

\* forceSyncAll, the player's getCurrentTime throwing inside the try block
ForceSyncAllThrows(c) ==
    /\ eng[c].isConnected
    /\ eng[c].isReady
    /\ EngineStep(c, "synchronizeNow", Thrown(NoMsg, TRUE), Outcome(eng[c], <<>>), <<>>)

-----------------------------------------------------------------------------
(* The BroadcastChannel fallback transport: MockSocketServer, one per tab   *)

Tabs == {"t1", "t2"}            \* tabs of one browser, one origin
MaxChannel == 2                 \* channel messages waiting at one tab
MaxEchoes == 1                  \* pending setTimeout callbacks of one mock socket
MockEvents == {"video:play", "video:load", "video:get_current"}
NoHandling == [event |-> "none", sender |-> "", ran |-> FALSE]

\* UserProvider: the userId kept in localStorage, which the tabs of a browser
\* share; when localStorage is denied each tab keeps a nanoid of its own
StoredUserId(t, shared) == IF shared THEN "u1" ELSE IF t = "t1" THEN "u1" ELSE "u2"

NewMock(shared) ==
    [tabs |-> [t \in Tabs |->
                 [userId |-> StoredUserId(t, shared), inbox |-> <<>>, echoes |-> <<>>,
                  handled |-> NoHandling, echoed |-> "none"]],
     video |-> NoVideo]

MockData(event) ==
    IF event = "video:load" THEN [roomId |-> EngineRoom, videoId |-> "X"]
    ELSE IF event = "video:play" THEN [roomId |-> EngineRoom, time |-> 0, timestamp |-> now]
    ELSE [roomId |-> EngineRoom]

\* broadcastToRoom: setTimeout(() => executeHandlers(event, data), 10), in the
\* emitting tab
BroadcastToRoom(event, data) == <<[event |-> event, data |-> data]>>

\* mockSocket.emit(event, data) in tab t
MockEmit(t, event) ==
    LET data   == MockData(event)
        local  == IF event \in {"video:play", "video:load"}
                  THEN BroadcastToRoom(event, data)
                  ELSE IF event = "video:get_current" /\ mock.video # NoVideo
                  THEN <<[event |-> "video:current", data |-> [videoId |-> mock.video]]>>
                  ELSE <<>>
        posted == [event |-> event, data |-> data, sender |-> mock.tabs[t].userId]
    IN  /\ Len(mock.tabs[t].echoes) + Len(local) <= MaxEchoes
        /\ \A d \in Tabs \ {t} : Len(mock.tabs[d].inbox) < MaxChannel
        /\ mock' = [tabs |-> [d \in Tabs |->
                                IF d = t
                                THEN [mock.tabs[d] EXCEPT !.echoes = @ \o local]
                                ELSE [mock.tabs[d] EXCEPT !.inbox = Append(@, posted)]],
                    video |-> IF event = "video:load" THEN data.videoId ELSE mock.video]

\* a pending setTimeout of tab t's mock socket runs executeHandlers
MockEchoFires(t) ==
    /\ mock.tabs[t].echoes # <<>>
    /\ mock' = [mock EXCEPT !.tabs[t].echoes = Tail(@),
                            !.tabs[t].echoed = Head(mock.tabs[t].echoes).event]

\* the channel's 'message' listener of tab t takes the oldest message
MockChannelMessage(t) ==
    /\ mock.tabs[t].inbox # <<>>
    /\ LET m   == Head(mock.tabs[t].inbox)
           run == m.sender # mock.tabs[t].userId
       IN  mock' = [mock EXCEPT !.tabs[t].inbox = Tail(@),
                                !.tabs[t].handled =
                                    [event |-> m.event, sender |-> m.sender, ran |-> run]]

-----------------------------------------------------------------------------
(* Player state changes: handleStateChange *)

PlayerStates == {0, 1, 2, 3}    \* YT.PlayerState: ended, playing, paused, buffering

\* handleStateChange(event) with event.data = state; reading is what
\* playerRef.current.getCurrentTime() returns
HandleStateChange(c, state, reading) ==
    LET e    == eng[c]
        skip == ~e.isReady \/ e.seeking
        flip == \/ state = 1 /\ ~e.isPlaying
                \/ state = 2 /\ e.isPlaying
        says == IF state = 1 THEN "video:play" ELSE "video:pause"
        data == [roomId |-> EngineRoom, time |-> reading, timestamp |-> now]
    IN  EngineStep(c, "stateChange", [state |-> state, reading |-> reading],
                   Outcome(IF skip THEN e
                           ELSE IF flip THEN [e EXCEPT !.isPlaying = (state = 1)]
                           ELSE IF state = 0 THEN [e EXCEPT !.isPlaying = FALSE]
                           ELSE e, <<>>),
                   IF skip THEN <<>>
                   ELSE IF flip /\ e.isConnected /\ ~e.syncPending
                   THEN <<[event |-> says, data |-> data]>>
                   ELSE IF state = 0 /\ e.isConnected
                   THEN <<[event |-> "video:pause", data |-> data]>>
                   ELSE <<>>)

-----------------------------------------------------------------------------
(* The periodic sync effect: its interval, its cleanup, its re-subscription *)

MaxIntervals == 4               \* setInterval calls the model follows per hook

\* intervals: the ids of the intervals that exist; ref: syncIntervalRef.current
\* (0 is null); next: the last id setInterval returned; mounted: the component
\* that uses the hook is mounted
NoHeartbeat == [intervals |-> {}, ref |-> 0, next |-> 0, mounted |-> TRUE]

\* the dependency array of the effect, of the fields the engine keeps
HeartbeatDeps(e) ==
    <<e.isConnected, e.isReady, e.currentVideoId, e.isPlaying, e.lastUpdateTime>>

\* the cleanup without its clearInterval
HeartbeatCleanupKeeps(h) ==
    IF h.ref # 0 THEN [h EXCEPT !.ref = 0] ELSE h

\* the function the effect returns
HeartbeatCleanup(h) ==
    IF h.ref # 0 THEN [h EXCEPT !.intervals = @ \ {h.ref}, !.ref = 0] ELSE h

\* the body of the effect, run with the store as e
HeartbeatBody(e, h) ==
    IF e.isConnected /\ e.isReady
    THEN [h EXCEPT !.intervals = @ \cup {h.next + 1}, !.ref = h.next + 1,
                   !.next = h.next + 1]
    ELSE h

\* after the render that follows a step of client c: when a dependency has
\* changed, the cleanup of the last run and then the body
HeartbeatEffect(c) ==
    IF HeartbeatDeps(eng'[c]) # HeartbeatDeps(eng[c])
    THEN /\ hb[c].next < MaxIntervals
         /\ hb' = [hb EXCEPT ![c] = HeartbeatBody(eng'[c], HeartbeatCleanup(hb[c]))]
    ELSE UNCHANGED hb

\* the component unmounts: the cleanups of its effects run
Unmount(c) ==
    /\ hb[c].mounted
    /\ hb' = [hb EXCEPT ![c] = [HeartbeatCleanup(hb[c]) EXCEPT !.mounted = FALSE]]
    /\ emitted' = IF eng[c].isConnected THEN JoinCleanupEmits(c) ELSE <<>>
    /\ playerCalls' = <<>>
    /\ lastEvt' = [client |-> c, kind |-> "unmount", msg |-> NoMsg,
                   before |-> Local(eng[c]), fresh |-> TRUE, repeat |-> FALSE]
    /\ UNCHANGED eng

InitEngineVars ==
    /\ eng = [c \in Conns |-> NewEngine]
    /\ emitted = <<>>
    /\ playerCalls = <<>>
    /\ lastEvt = NoEvt

InitWire ==
    /\ c2s = [c \in Conns |-> <<>>]
    /\ s2c = [c \in Conns |-> <<>>]
    /\ intents = 0
    /\ answered = [r \in RoomIds |-> <<>>]
    /\ mock = NewMock(TRUE)
    /\ hb = [c \in Conns |-> NoHeartbeat]

-----------------------------------------------------------------------------
(* The authority alone, its clients sending anything the wire format allows *)

LoadData == [roomId : AuthorityRooms, videoId : VideoIds, timestamp : Stamps]
TimeData == [roomId : AuthorityRooms, time : AuthorityTimes, timestamp : Stamps]
SyncData == [roomId : AuthorityRooms, time : AuthorityTimes, isPlaying : BOOLEAN,
             videoId : VideoIds \cup {NoVideo}, timestamp : Stamps]
QueryData == [roomId : AuthorityRooms, timestamp : Stamps]

\* a sender stamps at send time: just now, or one clock step ago
Sendable(S) == {d \in S : d.timestamp \in {now, now - 5000}}
SentNow(S) == {d \in S : d.timestamp = now}

InitAuthority ==
    /\ now = 0
    /\ rooms = << >>
    /\ socks = [c \in Conns |->
                 [userId |-> "", currentRoom |-> "", joined |-> {}, connected |-> TRUE]]
    /\ sent = {}
    /\ applied = [r \in RoomIds |-> NothingApplied]
    /\ lastOp = NoOp
    /\ InitEngineVars
    /\ InitWire

DoRoomJoin ==
    /\ \E c \in Conns, r \in AuthorityRooms : RoomJoin(c, r)
    /\ UNCHANGED <<engineVars, wireVars, historyVars, mockVars, intervalVars>>
DoGetCurrent ==
    /\ \E c \in Conns, d \in SentNow(QueryData) : VideoGetCurrent(c, d)
    /\ UNCHANGED <<engineVars, wireVars, historyVars, mockVars, intervalVars>>
DoLoad ==
    /\ \E c \in Conns, d \in Sendable(LoadData) : VideoLoad(c, d)
    /\ UNCHANGED <<engineVars, wireVars, historyVars, mockVars, intervalVars>>
DoPlay ==
    /\ \E c \in Conns, d \in Sendable(TimeData) : VideoPlay(c, d)
    /\ UNCHANGED <<engineVars, wireVars, historyVars, mockVars, intervalVars>>
DoPause ==
    /\ \E c \in Conns, d \in Sendable(TimeData) : VideoPause(c, d)
    /\ UNCHANGED <<engineVars, wireVars, historyVars, mockVars, intervalVars>>
DoSeek ==
    /\ \E c \in Conns, d \in Sendable(TimeData) : VideoSeek(c, d)
    /\ UNCHANGED <<engineVars, wireVars, historyVars, mockVars, intervalVars>>
DoSync ==
    /\ \E c \in Conns, d \in SentNow(SyncData) : VideoSync(c, d)
    /\ UNCHANGED <<engineVars, wireVars, historyVars, mockVars, intervalVars>>
DoForceSync ==
    /\ \E c \in Conns, d \in SentNow(SyncData) : VideoForceSync(c, d)
    /\ UNCHANGED <<engineVars, wireVars, historyVars, mockVars, intervalVars>>
DoRoomLeave ==
    /\ \E c \in Conns : socks[c].joined # {} /\
                        RoomLeave(c, socks[c].currentRoom, socks[c].userId)
    /\ UNCHANGED <<engineVars, wireVars, historyVars, mockVars, intervalVars>>
DoDisconnect ==
    /\ \E c \in Conns : Disconnect(c)
    /\ UNCHANGED <<engineVars, wireVars, historyVars, mockVars, intervalVars>>

DoTick == Tick /\ UNCHANGED <<engineVars, wireVars, historyVars, mockVars, intervalVars>>

NextAuthority ==
    \/ DoRoomJoin
    \/ DoGetCurrent
    \/ DoLoad
    \/ DoPlay
    \/ DoPause
    \/ DoSeek
    \/ DoSync
    \/ DoForceSync
    \/ DoRoomLeave
    \/ DoDisconnect
    \/ DoTick

SpecAuthority == InitAuthority /\ [][NextAuthority]_vars

-----------------------------------------------------------------------------
(* The authority observed through its answers: the history of the          *)
(* video:get_current answers of each room since the room's last write is   *)
(* kept, and clients also send video events that lack their roomId.        *)

\* the times of the last two answers, oldest first
Answer(as, t) == IF Len(as) < 2 THEN Append(as, t) ELSE <<as[2], t>>

\* a write to the room, or its deletion, starts the history afresh
Forget(roomId) ==
    IF roomId \in RoomIds THEN [answered EXCEPT ![roomId] = <<>>] ELSE answered

\* well-formed video events: one of each kind, stamped now
ReqLoadData == {[roomId |-> r, videoId |-> "X", timestamp |-> now] : r \in AuthorityRooms}
ReqTimeData == {[roomId |-> r, time |-> 10 * UnitsPerSecond, timestamp |-> now] :
                   r \in AuthorityRooms}
ReqSyncData == {[roomId |-> r, time |-> 10 * UnitsPerSecond, isPlaying |-> TRUE,
                 videoId |-> "X", timestamp |-> now] : r \in AuthorityRooms}

\* video events without their roomId: one of each kind, stamped now
StrayLoad == {[roomId |-> NoRoom, videoId |-> "X", timestamp |-> now]}
StrayTime == {[roomId |-> NoRoom, time |-> 0, timestamp |-> now]}
StraySync == {[roomId |-> NoRoom, time |-> 0, isPlaying |-> FALSE, videoId |-> "X",
               timestamp |-> now]}

\* the room the step wrote to or deleted loses its history
Afresh == answered' = [r \in RoomIds |->
                         IF r \in DOMAIN rooms /\ r \in DOMAIN rooms' /\ rooms'[r] = rooms[r]
                         THEN answered[r] ELSE <<>>]

ReqRoomJoin ==
    /\ \E c \in Conns, r \in AuthorityRooms : RoomJoin(c, r)
    /\ UNCHANGED <<engineVars, wireVars, historyVars, mockVars, intervalVars>>
ReqGetCurrent ==
    /\ \E c \in Conns, d \in SentNow(QueryData) :
          /\ VideoGetCurrent(c, d)
          /\ answered' = IF \E x \in sent' : x.event = "video:current"
                         THEN [answered EXCEPT ![d.roomId] =
                                  Answer(@, (CHOOSE x \in sent' : x.event = "video:current").payload.time)]
                         ELSE answered
    /\ UNCHANGED <<engineVars, c2s, s2c, intents, mockVars, intervalVars>>
ReqLoad ==
    /\ \E c \in Conns, d \in ReqLoadData \cup StrayLoad : VideoLoad(c, d)
    /\ Afresh
    /\ UNCHANGED <<engineVars, c2s, s2c, intents, mockVars, intervalVars>>
ReqPlay ==
    /\ \E c \in Conns, d \in ReqTimeData \cup StrayTime : VideoPlay(c, d)
    /\ Afresh
    /\ UNCHANGED <<engineVars, c2s, s2c, intents, mockVars, intervalVars>>
ReqPause ==
    /\ \E c \in Conns, d \in ReqTimeData \cup StrayTime : VideoPause(c, d)
    /\ Afresh
    /\ UNCHANGED <<engineVars, c2s, s2c, intents, mockVars, intervalVars>>
ReqSeek ==
    /\ \E c \in Conns, d \in ReqTimeData \cup StrayTime : VideoSeek(c, d)
    /\ Afresh
    /\ UNCHANGED <<engineVars, c2s, s2c, intents, mockVars, intervalVars>>
ReqSync ==
    /\ \E c \in Conns, d \in ReqSyncData \cup StraySync : VideoSync(c, d)
    /\ Afresh
    /\ UNCHANGED <<engineVars, c2s, s2c, intents, mockVars, intervalVars>>
ReqForceSync ==
    /\ \E c \in Conns, d \in ReqSyncData \cup StraySync : VideoForceSync(c, d)
    /\ Afresh
    /\ UNCHANGED <<engineVars, c2s, s2c, intents, mockVars, intervalVars>>
ReqRoomLeave ==
    /\ \E c \in Conns : socks[c].joined # {} /\
                        RoomLeave(c, socks[c].currentRoom, socks[c].userId)
    /\ answered' = [r \in RoomIds |-> IF r \in DOMAIN rooms' THEN answered[r] ELSE <<>>]
    /\ UNCHANGED <<engineVars, c2s, s2c, intents, mockVars, intervalVars>>
ReqDisconnect ==
    /\ \E c \in Conns : Disconnect(c)
    /\ answered' = [r \in RoomIds |-> IF r \in DOMAIN rooms' THEN answered[r] ELSE <<>>]
    /\ UNCHANGED <<engineVars, c2s, s2c, intents, mockVars, intervalVars>>
ReqTick == Tick /\ UNCHANGED <<engineVars, wireVars, historyVars, mockVars, intervalVars>>

NextRequests ==
    \/ ReqRoomJoin
    \/ ReqGetCurrent
    \/ ReqLoad
    \/ ReqPlay
    \/ ReqPause
    \/ ReqSeek
    \/ ReqSync
    \/ ReqForceSync
    \/ ReqRoomLeave
    \/ ReqDisconnect
    \/ ReqTick

SpecRequests == InitAuthority /\ [][NextRequests]_vars

-----------------------------------------------------------------------------
(* One engine alone, its socket delivering anything the wire format allows *)

UnderTest == "s1"

InLoad == [videoId : VideoIds]
InTime == [time : EngineTimes]
InSync == [time : EngineTimes, isPlaying : BOOLEAN, videoId : VideoIds \cup {NoVideo}]

InitEngine == InitAuthority

RecvLoad == (\E m \in InLoad : OnVideoLoad(UnderTest, m)) /\ UNCHANGED <<authorityVars, wireVars, historyVars, mockVars, intervalVars>>
RecvPlay == (\E m \in InTime : OnVideoPlay(UnderTest, m)) /\ UNCHANGED <<authorityVars, wireVars, historyVars, mockVars, intervalVars>>
RecvPause == (\E m \in InTime : OnVideoPause(UnderTest, m)) /\ UNCHANGED <<authorityVars, wireVars, historyVars, mockVars, intervalVars>>
RecvSeek == (\E m \in InTime : OnVideoSeek(UnderTest, m)) /\ UNCHANGED <<authorityVars, wireVars, historyVars, mockVars, intervalVars>>
RecvSync == (\E m \in InSync : OnVideoSync(UnderTest, m)) /\ UNCHANGED <<authorityVars, wireVars, historyVars, mockVars, intervalVars>>
RecvForceSync == (\E m \in InSync : OnForceSync(UnderTest, m)) /\ UNCHANGED <<authorityVars, wireVars, historyVars, mockVars, intervalVars>>
TimerFires == SettleTimerFires(UnderTest) /\ UNCHANGED <<authorityVars, wireVars, historyVars, mockVars, intervalVars>>
DoSetPlayerRef == (\E a \in BOOLEAN : SetPlayerRef(UnderTest, a)) /\ UNCHANGED <<authorityVars, wireVars, historyVars, mockVars, intervalVars>>
DoLoadVideo == (\E v \in VideoIds : LoadVideo(UnderTest, v)) /\ UNCHANGED <<authorityVars, wireVars, historyVars, mockVars, intervalVars>>
DoPlayVideo == PlayVideo(UnderTest) /\ UNCHANGED <<authorityVars, wireVars, historyVars, mockVars, intervalVars>>
DoPauseVideo == (\E r \in EngineTimes : PauseVideo(UnderTest, r)) /\ UNCHANGED <<authorityVars, wireVars, historyVars, mockVars, intervalVars>>
DoSeekTo == (\E t \in EngineTimes : SeekTo(UnderTest, t)) /\ UNCHANGED <<authorityVars, wireVars, historyVars, mockVars, intervalVars>>

NextEngine ==
    \/ RecvLoad
    \/ RecvPlay
    \/ RecvPause
    \/ RecvSeek
    \/ RecvSync
    \/ RecvForceSync
    \/ TimerFires
    \/ DoSetPlayerRef
    \/ DoLoadVideo
    \/ DoPlayVideo
    \/ DoPauseVideo
    \/ DoSeekTo

SpecEngine == InitEngine /\ [][NextEngine]_vars

-----------------------------------------------------------------------------
(* Two clients, the authority and the wire between them.  The session is   *)
(* under way: both clients have joined room r1, video X is loaded and      *)
(* playing at position 0 everywhere, both players are attached and nothing *)
(* is in flight.  From there users press play and pause.                   *)

MaxIntents == 2                 \* user intents over all clients
MaxQueue == 3                   \* messages one direction of one connection holds
SessionVideo == "X"

SessionRoom ==
    [participants |-> <<[userId |-> "u1", isHost |-> TRUE],
                        [userId |-> "u2", isHost |-> FALSE]>>,
     currentVideoId |-> SessionVideo, currentTime |-> 0, isPlaying |-> TRUE,
     lastUpdated |-> 0]

SessionEngine ==
    [NewEngine EXCEPT !.currentVideoId = SessionVideo, !.isPlaying = TRUE,
                      !.isReady = TRUE]

Init ==
    /\ now = 0
    /\ rooms = (EngineRoom :> SessionRoom)
    /\ socks = [c \in Conns |->
                 [userId |-> UserIdOf[c], currentRoom |-> EngineRoom,
                  joined |-> {EngineRoom}, connected |-> TRUE]]
    /\ sent = {}
    /\ applied = [r \in RoomIds |-> NothingApplied]
    /\ lastOp = NoOp
    /\ eng = [c \in Conns |-> SessionEngine]
    /\ emitted = <<>>
    /\ playerCalls = <<>>
    /\ lastEvt = NoEvt
    /\ InitWire

\* what the engine step of client c emitted goes on its socket, in order
Upload(c) ==
    /\ c2s' = [c2s EXCEPT ![c] = @ \o emitted']
    /\ Len(c2s'[c]) <= MaxQueue

\* what the authority's handler emitted goes to each recipient
Deliver ==
    /\ s2c' = [d \in Conns |->
                 IF \E x \in sent' : x.to = d
                 THEN Append(s2c[d], LET x == CHOOSE x \in sent' : x.to = d
                                     IN  [event |-> x.event, payload |-> x.payload])
                 ELSE s2c[d]]
    /\ \A d \in Conns : Len(s2c'[d]) <= MaxQueue

UserPlays(c) ==
    /\ intents < MaxIntents
    /\ PlayVideo(c)
    /\ Upload(c)
    /\ intents' = intents + 1
    /\ UNCHANGED <<authorityVars, s2c, answered, mockVars, intervalVars>>

\* the player reports position 0, as the store does
UserPauses(c) ==
    /\ intents < MaxIntents
    /\ PauseVideo(c, 0)
    /\ Upload(c)
    /\ intents' = intents + 1
    /\ UNCHANGED <<authorityVars, s2c, answered, mockVars, intervalVars>>

\* the authority handles the oldest message of connection c
AuthorityReceives(c) ==
    /\ c2s[c] # <<>>
    /\ LET m == Head(c2s[c])
       IN  IF m.event = "video:play" THEN VideoPlay(c, m.data)
           ELSE VideoPause(c, m.data)
    /\ Deliver
    /\ c2s' = [c2s EXCEPT ![c] = Tail(@)]
    /\ UNCHANGED <<engineVars, intents, answered, mockVars, intervalVars>>

\* client c handles the oldest message the authority sent it
ClientReceives(c) ==
    /\ s2c[c] # <<>>
    /\ LET m == Head(s2c[c])
       IN  IF m.event = "video:play" THEN OnVideoPlay(c, m.payload)
           ELSE OnVideoPause(c, m.payload)
    /\ Upload(c)
    /\ s2c' = [s2c EXCEPT ![c] = Tail(@)]
    /\ UNCHANGED <<authorityVars, intents, answered, mockVars, intervalVars>>

Next ==
    \/ \E c \in Conns : UserPlays(c)
    \/ \E c \in Conns : UserPauses(c)
    \/ \E c \in Conns : AuthorityReceives(c)
    \/ \E c \in Conns : ClientReceives(c)

Spec == Init /\ [][Next]_vars

\* socket.io delivers every message and the event loops run every handler
FairSpec ==
    /\ Spec
    /\ \A c \in Conns : WF_vars(AuthorityReceives(c))
    /\ \A c \in Conns : WF_vars(ClientReceives(c))

-----------------------------------------------------------------------------
(* One debounce window of scrubbing: the clients of the session call seekTo *)
(* in quick succession; no settle timer (500 ms) fires within the window   *)
(* and the authority has not yet read the wire.                             *)

InitScrub == Init

Scrub(c) ==
    /\ \E t \in EngineTimes : SeekTo(c, t)
    /\ Upload(c)
    /\ UNCHANGED <<authorityVars, s2c, intents, answered, mockVars, intervalVars>>

NextScrub == \E c \in Conns : Scrub(c)

SpecScrub == InitScrub /\ [][NextScrub]_vars

-----------------------------------------------------------------------------
(* One engine and its tab: the player is ready, a video is loaded, the tab  *)
(* is hidden and shown while the clock advances.                            *)

MaxAbsences == 3                \* clock advances the model takes
AbsenceSteps == {8000}          \* ms between two visibility changes

InitVisibility ==
    /\ now = 0
    /\ rooms = << >>
    /\ socks = [c \in Conns |->
                 [userId |-> "", currentRoom |-> "", joined |-> {}, connected |-> TRUE]]
    /\ sent = {}
    /\ applied = [r \in RoomIds |-> NothingApplied]
    /\ lastOp = NoOp
    /\ \E p \in BOOLEAN, k \in BOOLEAN, t \in EngineTimes :
          eng = [c \in Conns |->
                   IF c = UnderTest
                   THEN [SessionEngine EXCEPT !.isPlaying = p, !.isConnected = k,
                                              !.currentTime = t]
                   ELSE NewEngine]
    /\ emitted = <<>>
    /\ playerCalls = <<>>
    /\ lastEvt = NoEvt
    /\ InitWire

TabHidden ==
    /\ \E r \in EngineTimes : HandleVisibilityChange(UnderTest, TRUE, r)
    /\ UNCHANGED <<authorityVars, wireVars, historyVars, mockVars, intervalVars>>
TabVisible ==
    /\ HandleVisibilityChange(UnderTest, FALSE, 0)
    /\ UNCHANGED <<authorityVars, wireVars, historyVars, mockVars, intervalVars>>
ResumeFires ==
    /\ ResumeTimerFires(UnderTest)
    /\ UNCHANGED <<authorityVars, wireVars, historyVars, mockVars, intervalVars>>
\* a peer's video:sync that agrees with the local state
SyncArrives ==
    /\ OnVideoSync(UnderTest, [time |-> eng[UnderTest].currentTime,
                               isPlaying |-> eng[UnderTest].isPlaying,
                               videoId |-> eng[UnderTest].currentVideoId])
    /\ UNCHANGED <<authorityVars, wireVars, historyVars, mockVars, intervalVars>>
Elapse ==
    /\ now < MaxAbsences * 8000
    /\ \E d \in AbsenceSteps : now' = now + d
    /\ UNCHANGED <<rooms, socks, sent, applied, lastOp, engineVars, wireVars, historyVars, mockVars, intervalVars>>

NextVisibility ==
    \/ TabHidden
    \/ TabVisible
    \/ ResumeFires
    \/ SyncArrives
    \/ Elapse

SpecVisibility == InitVisibility /\ [][NextVisibility]_vars

\* the event loop runs every timer the resume has set
FairVisibility == SpecVisibility /\ WF_vars(ResumeFires)

-----------------------------------------------------------------------------
(* One client's page: the transport connects and drops, the player comes   *)
(* and goes, the heartbeat ticks, peers join and the user acts.             *)

PageVideo == "X"
InCurrent == [videoId : {PageVideo}, time : {0, 1500}, isPlaying : BOOLEAN]
PageReadings == {0, 2000}       \* what the player's getCurrentTime() returns

InitPage ==
    /\ now = 0
    /\ rooms = << >>
    /\ socks = [c \in Conns |->
                 [userId |-> "", currentRoom |-> "", joined |-> {}, connected |-> TRUE]]
    /\ sent = {}
    /\ applied = [r \in RoomIds |-> NothingApplied]
    /\ lastOp = NoOp
    /\ eng = [c \in Conns |->
                IF c = UnderTest THEN [NewEngine EXCEPT !.isConnected = FALSE]
                ELSE NewEngine]
    /\ emitted = <<>>
    /\ playerCalls = <<>>
    /\ lastEvt = NoEvt
    /\ InitWire

Connectivity ==
    /\ \E up \in BOOLEAN : SetConnected(UnderTest, up)
    /\ UNCHANGED <<authorityVars, wireVars, historyVars, mockVars, intervalVars>>
PlayerComesAndGoes ==
    /\ \E a \in BOOLEAN : PlayerAttached(UnderTest, a)
    /\ UNCHANGED <<authorityVars, wireVars, historyVars, mockVars, intervalVars>>
CurrentArrives ==
    /\ \E m \in InCurrent : OnVideoCurrent(UnderTest, m)
    /\ UNCHANGED <<authorityVars, wireVars, historyVars, mockVars, intervalVars>>
Heartbeat ==
    /\ \E r \in PageReadings : HeartbeatTick(UnderTest, r)
    /\ UNCHANGED <<authorityVars, wireVars, historyVars, mockVars, intervalVars>>
DoSynchronizeNow ==
    /\ \E r \in PageReadings : SynchronizeNow(UnderTest, r)
    /\ UNCHANGED <<authorityVars, wireVars, historyVars, mockVars, intervalVars>>
PeerJoins ==
    /\ HandleUserJoined(UnderTest)
    /\ UNCHANGED <<authorityVars, wireVars, historyVars, mockVars, intervalVars>>
BroadcastFires ==
    /\ \E r \in PageReadings : JoinTimerFires(UnderTest, r)
    /\ UNCHANGED <<authorityVars, wireVars, historyVars, mockVars, intervalVars>>
PagePlays == PlayVideo(UnderTest) /\ UNCHANGED <<authorityVars, wireVars, historyVars, mockVars, intervalVars>>
PagePauses ==
    /\ \E r \in PageReadings : PauseVideo(UnderTest, r)
    /\ UNCHANGED <<authorityVars, wireVars, historyVars, mockVars, intervalVars>>
PageSeeks ==
    /\ \E t \in PageReadings : SeekTo(UnderTest, t)
    /\ UNCHANGED <<authorityVars, wireVars, historyVars, mockVars, intervalVars>>
PageLoads == LoadVideo(UnderTest, PageVideo) /\ UNCHANGED <<authorityVars, wireVars, historyVars, mockVars, intervalVars>>

NextPage ==
    \/ Connectivity
    \/ PlayerComesAndGoes
    \/ CurrentArrives
    \/ Heartbeat
    \/ DoSynchronizeNow
    \/ PeerJoins
    \/ BroadcastFires
    \/ PagePlays
    \/ PagePauses
    \/ PageSeeks
    \/ PageLoads
    \/ TimerFires

SpecPage == InitPage /\ [][NextPage]_vars

\* the interval of the periodic effect keeps firing while it exists
FairPage == SpecPage /\ WF_vars(Heartbeat)

-----------------------------------------------------------------------------
(* One engine whose player may throw from any control call *)

InForce == [time : EngineTimes, isPlaying : BOOLEAN, videoId : {NoVideo}]

InitFaults == InitEngine

FaultRecvSeek ==
    /\ \E m \in InTime : OnVideoSeekThrows(UnderTest, m)
    /\ UNCHANGED <<authorityVars, wireVars, historyVars, mockVars, intervalVars>>
FaultRecvForceSync ==
    /\ \E m \in InForce : OnForceSyncThrows(UnderTest, m)
    /\ UNCHANGED <<authorityVars, wireVars, historyVars, mockVars, intervalVars>>
FaultSeekTo ==
    /\ \E t \in EngineTimes : SeekToThrows(UnderTest, t)
    /\ UNCHANGED <<authorityVars, wireVars, historyVars, mockVars, intervalVars>>
FaultPlayVideo ==
    /\ PlayVideoThrows(UnderTest)
    /\ UNCHANGED <<authorityVars, wireVars, historyVars, mockVars, intervalVars>>
FaultHeartbeat ==
    /\ HeartbeatThrows(UnderTest)
    /\ UNCHANGED <<authorityVars, wireVars, historyVars, mockVars, intervalVars>>
FaultForceSyncAll ==
    /\ ForceSyncAllThrows(UnderTest)
    /\ UNCHANGED <<authorityVars, wireVars, historyVars, mockVars, intervalVars>>

NextFaults ==
    \/ FaultRecvSeek
    \/ FaultRecvForceSync
    \/ FaultSeekTo
    \/ FaultPlayVideo
    \/ FaultHeartbeat
    \/ FaultForceSyncAll
    \/ RecvSeek
    \/ TimerFires
    \/ DoSetPlayerRef

SpecFaults == InitFaults /\ [][NextFaults]_vars

-----------------------------------------------------------------------------
(* The authority with two rooms: every client may address either room *)

RoomsLoadData == {[roomId |-> r, videoId |-> "X", timestamp |-> now] : r \in RoomIds}
RoomsTimeData == {[roomId |-> r, time |-> 10 * UnitsPerSecond, timestamp |-> now] :
                     r \in RoomIds}
RoomsSyncData == {[roomId |-> r, time |-> 10 * UnitsPerSecond, isPlaying |-> TRUE,
                   videoId |-> "Y", timestamp |-> now] : r \in RoomIds}

InitRooms == InitAuthority

RoomsJoin ==
    /\ \E c \in Conns, r \in RoomIds : RoomJoin(c, r)
    /\ UNCHANGED <<engineVars, wireVars, historyVars, mockVars, intervalVars>>
RoomsLoad ==
    /\ \E c \in Conns, d \in RoomsLoadData : VideoLoad(c, d)
    /\ UNCHANGED <<engineVars, wireVars, historyVars, mockVars, intervalVars>>
RoomsPlay ==
    /\ \E c \in Conns, d \in RoomsTimeData : VideoPlay(c, d)
    /\ UNCHANGED <<engineVars, wireVars, historyVars, mockVars, intervalVars>>
RoomsPause ==
    /\ \E c \in Conns, d \in RoomsTimeData : VideoPause(c, d)
    /\ UNCHANGED <<engineVars, wireVars, historyVars, mockVars, intervalVars>>
RoomsSeek ==
    /\ \E c \in Conns, d \in RoomsTimeData : VideoSeek(c, d)
    /\ UNCHANGED <<engineVars, wireVars, historyVars, mockVars, intervalVars>>
RoomsSync ==
    /\ \E c \in Conns, d \in RoomsSyncData : VideoSync(c, d)
    /\ UNCHANGED <<engineVars, wireVars, historyVars, mockVars, intervalVars>>
RoomsForceSync ==
    /\ \E c \in Conns, d \in RoomsSyncData : VideoForceSync(c, d)
    /\ UNCHANGED <<engineVars, wireVars, historyVars, mockVars, intervalVars>>
RoomsLeave ==
    /\ \E c \in Conns, r \in RoomIds : RoomLeave(c, r, UserIdOf[c])
    /\ UNCHANGED <<engineVars, wireVars, historyVars, mockVars, intervalVars>>
RoomsDisconnect ==
    /\ \E c \in Conns : Disconnect(c)
    /\ UNCHANGED <<engineVars, wireVars, historyVars, mockVars, intervalVars>>

NextRooms ==
    \/ RoomsJoin
    \/ RoomsLoad
    \/ RoomsPlay
    \/ RoomsPause
    \/ RoomsSeek
    \/ RoomsSync
    \/ RoomsForceSync
    \/ RoomsLeave
    \/ RoomsDisconnect

SpecRooms == InitRooms /\ [][NextRooms]_vars

-----------------------------------------------------------------------------
(* Two tabs of one browser at the authority: each tab has its own socket,   *)
(* both send the userId the browser has stored.                             *)

BrowserUser == "u1"

InitSameUser == InitAuthority

TabJoins ==
    /\ \E c \in Conns, r \in RoomIds : RoomJoinAs(c, r, BrowserUser)
    /\ UNCHANGED <<engineVars, wireVars, historyVars, mockVars, intervalVars>>
TabLoads ==
    /\ \E c \in Conns, d \in RoomsLoadData : VideoLoad(c, d)
    /\ UNCHANGED <<engineVars, wireVars, historyVars, mockVars, intervalVars>>
TabPauses ==
    /\ \E c \in Conns, d \in RoomsTimeData : VideoPause(c, d)
    /\ UNCHANGED <<engineVars, wireVars, historyVars, mockVars, intervalVars>>
\* a tab leaves the room its page has joined
TabLeaves ==
    /\ \E c \in Conns, r \in RoomIds :
          /\ r \in socks[c].joined
          /\ RoomLeave(c, r, BrowserUser)
    /\ UNCHANGED <<engineVars, wireVars, historyVars, mockVars, intervalVars>>
TabCloses ==
    /\ \E c \in Conns : Disconnect(c)
    /\ UNCHANGED <<engineVars, wireVars, historyVars, mockVars, intervalVars>>

NextSameUser ==
    \/ TabJoins
    \/ TabLoads
    \/ TabPauses
    \/ TabLeaves
    \/ TabCloses

SpecSameUser == InitSameUser /\ [][NextSameUser]_vars

-----------------------------------------------------------------------------
(* A late join: the room has a video under way for its resident; the page   *)
(* of a second client connects, joins and attaches its player, and the      *)
(* authority and the page handle what the other has sent.                   *)

Joiner == UnderTest
Resident == "s2"
LateRoom == EngineRoom
LateTimes == {0, 10 * UnitsPerSecond}

InitLateJoin ==
    /\ now = 0
    /\ \E p \in BOOLEAN, t \in LateTimes, v \in VideoIds :
          rooms = (LateRoom :>
                     [participants |-> <<[userId |-> UserIdOf[Resident], isHost |-> TRUE]>>,
                      currentVideoId |-> v, currentTime |-> t, isPlaying |-> p,
                      lastUpdated |-> 0])
    /\ socks = [c \in Conns |->
                 IF c = Resident
                 THEN [userId |-> UserIdOf[c], currentRoom |-> LateRoom,
                       joined |-> {LateRoom}, connected |-> TRUE]
                 ELSE [userId |-> "", currentRoom |-> "", joined |-> {}, connected |-> TRUE]]
    /\ sent = {}
    /\ applied = [r \in RoomIds |-> NothingApplied]
    /\ lastOp = NoOp
    /\ eng = [c \in Conns |->
                IF c = Joiner THEN [NewEngine EXCEPT !.isConnected = FALSE]
                ELSE NewEngine]
    /\ emitted = <<>>
    /\ playerCalls = <<>>
    /\ lastEvt = NoEvt
    /\ InitWire

\* the socket of the joiner's page connects: the join effect runs
JoinerConnects ==
    /\ SetConnected(Joiner, TRUE)
    /\ Upload(Joiner)
    /\ UNCHANGED <<authorityVars, s2c, intents, answered, mockVars, intervalVars>>

\* the player component of the joiner's page hands over its player
JoinerAttaches ==
    /\ PlayerAttached(Joiner, TRUE)
    /\ Upload(Joiner)
    /\ UNCHANGED <<authorityVars, s2c, intents, answered, mockVars, intervalVars>>

\* what the authority's handler emitted to the joiner, of the events its
\* page and hook listen to
ToJoiner(kind) ==
    IF \E x \in sent' : x.to = Joiner /\ x.event = kind
    THEN <<LET x == CHOOSE x \in sent' : x.to = Joiner /\ x.event = kind
           IN  [event |-> x.event, payload |-> x.payload]>>
    ELSE <<>>

\* the authority handles the oldest message of the joiner
AuthorityHandles ==
    /\ c2s[Joiner] # <<>>
    /\ LET m == Head(c2s[Joiner])
       IN  CASE m.event = "room:join" -> RoomJoin(Joiner, m.data.roomId)
             [] m.event = "video:get_current" -> VideoGetCurrent(Joiner, m.data)
             [] m.event = "video:load" -> VideoLoad(Joiner, m.data)
             [] m.event = "video:play" -> VideoPlay(Joiner, m.data)
             [] m.event = "video:pause" -> VideoPause(Joiner, m.data)
    /\ c2s' = [c2s EXCEPT ![Joiner] = Tail(@)]
    /\ s2c' = [s2c EXCEPT ![Joiner] =
                 @ \o ToJoiner("video:current") \o ToJoiner("video:load")
                   \o ToJoiner("video:play") \o ToJoiner("video:pause")]
    /\ Len(s2c'[Joiner]) <= MaxQueue
    /\ UNCHANGED <<engineVars, intents, answered, mockVars, intervalVars>>

\* the joiner's page and hook handle the oldest message from the authority
JoinerHandles ==
    /\ s2c[Joiner] # <<>>
    /\ LET m == Head(s2c[Joiner])
       IN  CASE m.event = "video:current" -> OnVideoCurrent(Joiner, m.payload)
             [] m.event = "video:load" -> OnVideoLoad(Joiner, m.payload)
             [] m.event = "video:play" -> OnVideoPlay(Joiner, m.payload)
             [] m.event = "video:pause" -> OnVideoPause(Joiner, m.payload)
    /\ Upload(Joiner)
    /\ s2c' = [s2c EXCEPT ![Joiner] = Tail(@)]
    /\ UNCHANGED <<authorityVars, intents, answered, mockVars, intervalVars>>

NextLateJoin ==
    \/ JoinerConnects
    \/ JoinerAttaches
    \/ AuthorityHandles
    \/ JoinerHandles

SpecLateJoin == InitLateJoin /\ [][NextLateJoin]_vars

-----------------------------------------------------------------------------
(* One mounted hook and its heartbeat interval: the page connects, attaches *)
(* its player, plays and pauses, the interval ticks, the component unmounts *)

InitMount == InitPage

MountConnectivity ==
    /\ hb[UnderTest].mounted
    /\ \E up \in BOOLEAN : SetConnected(UnderTest, up)
    /\ HeartbeatEffect(UnderTest)
    /\ UNCHANGED <<authorityVars, wireVars, historyVars, mockVars>>
MountPlayer ==
    /\ hb[UnderTest].mounted
    /\ \E a \in BOOLEAN : PlayerAttached(UnderTest, a)
    /\ HeartbeatEffect(UnderTest)
    /\ UNCHANGED <<authorityVars, wireVars, historyVars, mockVars>>
MountCurrent ==
    /\ hb[UnderTest].mounted
    /\ \E m \in InCurrent : OnVideoCurrent(UnderTest, m)
    /\ HeartbeatEffect(UnderTest)
    /\ UNCHANGED <<authorityVars, wireVars, historyVars, mockVars>>
MountPlays ==
    /\ hb[UnderTest].mounted
    /\ PlayVideo(UnderTest)
    /\ HeartbeatEffect(UnderTest)
    /\ UNCHANGED <<authorityVars, wireVars, historyVars, mockVars>>
MountPauses ==
    /\ hb[UnderTest].mounted
    /\ \E r \in PageReadings : PauseVideo(UnderTest, r)
    /\ HeartbeatEffect(UnderTest)
    /\ UNCHANGED <<authorityVars, wireVars, historyVars, mockVars>>
\* an interval that exists fires
IntervalTick ==
    /\ hb[UnderTest].intervals # {}
    /\ \E r \in PageReadings : HeartbeatTick(UnderTest, r)
    /\ HeartbeatEffect(UnderTest)
    /\ UNCHANGED <<authorityVars, wireVars, historyVars, mockVars>>
MountEnds ==
    /\ Unmount(UnderTest)
    /\ UNCHANGED <<authorityVars, wireVars, historyVars, mockVars>>

NextMount ==
    \/ MountConnectivity
    \/ MountPlayer
    \/ MountCurrent
    \/ MountPlays
    \/ MountPauses
    \/ IntervalTick
    \/ MountEnds

SpecMount == InitMount /\ [][NextMount]_vars

-----------------------------------------------------------------------------
(* Two tabs of one browser on the fallback transport *)

InitTabs ==
    /\ now = 0
    /\ rooms = << >>
    /\ socks = [c \in Conns |->
                 [userId |-> "", currentRoom |-> "", joined |-> {}, connected |-> TRUE]]
    /\ sent = {}
    /\ applied = [r \in RoomIds |-> NothingApplied]
    /\ lastOp = NoOp
    /\ InitEngineVars
    /\ c2s = [c \in Conns |-> <<>>]
    /\ s2c = [c \in Conns |-> <<>>]
    /\ intents = 0
    /\ answered = [r \in RoomIds |-> <<>>]
    /\ \E shared \in BOOLEAN : mock = NewMock(shared)
    /\ hb = [c \in Conns |-> NoHeartbeat]

TabEmits ==
    /\ \E t \in Tabs, e \in MockEvents : MockEmit(t, e)
    /\ UNCHANGED <<authorityVars, engineVars, wireVars, historyVars, intervalVars>>
EchoFires ==
    /\ \E t \in Tabs : MockEchoFires(t)
    /\ UNCHANGED <<authorityVars, engineVars, wireVars, historyVars, intervalVars>>
ChannelDelivers ==
    /\ \E t \in Tabs : MockChannelMessage(t)
    /\ UNCHANGED <<authorityVars, engineVars, wireVars, historyVars, intervalVars>>

NextTabs ==
    \/ TabEmits
    \/ EchoFires
    \/ ChannelDelivers

SpecTabs == InitTabs /\ [][NextTabs]_vars

-----------------------------------------------------------------------------
(* One engine around its seeks: the session is under way, the engine seeks  *)
(* and receives seeks, and meanwhile the heartbeat ticks, the player        *)
(* reports state changes, a peer joins and the tab is hidden.               *)

SettleStart == 8000             \* ms the hook has been mounted

InitSettle ==
    /\ now = SettleStart
    /\ rooms = << >>
    /\ socks = [c \in Conns |->
                 [userId |-> "", currentRoom |-> "", joined |-> {}, connected |-> TRUE]]
    /\ sent = {}
    /\ applied = [r \in RoomIds |-> NothingApplied]
    /\ lastOp = NoOp
    /\ \E p \in BOOLEAN :
          eng = [c \in Conns |->
                   IF c = UnderTest THEN [SessionEngine EXCEPT !.isPlaying = p]
                   ELSE NewEngine]
    /\ emitted = <<>>
    /\ playerCalls = <<>>
    /\ lastEvt = NoEvt
    /\ InitWire

StateChanges ==
    /\ \E st \in PlayerStates, r \in PageReadings : HandleStateChange(UnderTest, st, r)
    /\ UNCHANGED <<authorityVars, wireVars, historyVars, mockVars, intervalVars>>

NextSettle ==
    \/ PageSeeks
    \/ RecvSeek
    \/ TimerFires
    \/ Heartbeat
    \/ StateChanges
    \/ PeerJoins
    \/ BroadcastFires
    \/ TabHidden
    \/ TabVisible

SpecSettle == InitSettle /\ [][NextSettle]_vars

-----------------------------------------------------------------------------
(* Properties of one engine, checked under SpecEngine *)

SeekToCalled == \E i \in DOMAIN playerCalls : playerCalls[i].fn = "seekTo"

\* C1: a video:sync whose time differs from the local time by at most the
\* drift threshold never invokes the player's seekTo; a passive sync seeks
\* the player only when the difference exceeds the threshold.
SyncWithinThresholdNeverSeeks ==
    (lastEvt.kind = "video:sync" /\ lastEvt.fresh /\ SeekToCalled)
    => Abs(lastEvt.msg.time - lastEvt.before.time) > TIME_SYNC_THRESHOLD

\* a sync of the local video exactly 1.5 s away from the local time, at an
\* engine with its player attached, is absorbed
SyncWithinThresholdWitness ==
    /\ lastEvt.kind = "video:sync" /\ lastEvt.fresh
    /\ eng[lastEvt.client].isReady
    /\ lastEvt.msg.videoId = lastEvt.before.videoId
    /\ Abs(lastEvt.msg.time - lastEvt.before.time) = TIME_SYNC_THRESHOLD
    /\ ~SeekToCalled
    /\ eng[lastEvt.client].currentTime = lastEvt.before.time

\* C2: once the settle cycle of an inbound video:force_sync is over, the
\* client's time is the message's time and its play state the message's.
ForceSyncConverges ==
    (lastEvt.kind = "video:force_sync" /\ eng[lastEvt.client].timers = <<>>)
    => /\ eng[lastEvt.client].currentTime = lastEvt.msg.time
       /\ eng[lastEvt.client].isPlaying = lastEvt.msg.isPlaying

\* C5: the second of two consecutive applications of one video:sync message
\* changes nothing: the store fields stay and no player call is made.
SyncTwiceIsIdempotent ==
    (lastEvt.kind = "video:sync" /\ lastEvt.fresh /\ lastEvt.repeat)
    => /\ Local(eng[lastEvt.client]) = lastEvt.before
       /\ playerCalls = <<>>

\* C6: an inbound video:seek sets the local time to the message time and,
\* at an engine with its player attached, calls seekTo with that time,
\* whatever the difference to the local time.
SeekIsUnconditional ==
    (lastEvt.kind = "video:seek" /\ lastEvt.fresh)
    => /\ eng[lastEvt.client].currentTime = lastEvt.msg.time
       /\ eng[lastEvt.client].isReady => playerCalls = <<SeekToCall(lastEvt.msg.time)>>

\* a seek 0.5 s away from the local time, below the threshold, seeks the player
SeekIsUnconditionalWitness ==
    /\ lastEvt.kind = "video:seek" /\ lastEvt.fresh
    /\ eng[lastEvt.client].isReady
    /\ Abs(lastEvt.msg.time - lastEvt.before.time) = 500
    /\ playerCalls = <<SeekToCall(lastEvt.msg.time)>>
    /\ eng[lastEvt.client].seeking

\* C17: a video:pause whose time differs from the local time by more than
\* the threshold leaves the client paused at the message time, and with a
\* player attached seeks it to that time and pauses it.
PauseBeyondThresholdSeeks ==
    [][\A c \in Conns :
         (/\ lastEvt'.client = c
          /\ lastEvt'.kind = "video:pause"
          /\ lastEvt'.fresh
          /\ ExceedsThreshold(lastEvt'.msg.time, eng[c].currentTime))
         => /\ eng'[c].currentTime = lastEvt'.msg.time
            /\ ~eng'[c].isPlaying
            /\ eng[c].isReady =>
                  playerCalls' = <<SeekToCall(lastEvt'.msg.time), PauseCall>>]_vars

\* a playing client with its player attached has handled a pause 2 s away
PauseBeyondThresholdWitness ==
    /\ lastEvt.kind = "video:pause" /\ lastEvt.fresh
    /\ eng[lastEvt.client].isReady
    /\ playerCalls = <<SeekToCall(lastEvt.msg.time), PauseCall>>
    /\ lastEvt.msg.time = 2000
    /\ eng[lastEvt.client].currentTime = 2000
    /\ ~eng[lastEvt.client].isPlaying
    /\ eng[lastEvt.client].seeking

LocalKindOf == [k \in {"video:play", "video:pause", "video:seek"} |->
                  IF k = "video:play" THEN "playVideo"
                  ELSE IF k = "video:pause" THEN "pauseVideo" ELSE "seekTo"]

\* C19: the inbound replay of the play, pause or seek a client has just
\* emitted (same kind, same time, handled right after the emitting call)
\* changes nothing at that client: no store or ref change, no player call,
\* no outgoing message.
EchoIsIgnored ==
    [][\A c \in Conns :
         (/\ lastEvt'.client = c /\ lastEvt.client = c
          /\ lastEvt'.fresh
          /\ lastEvt'.kind \in DOMAIN LocalKindOf
          /\ lastEvt.kind = LocalKindOf[lastEvt'.kind]
          /\ \E i \in DOMAIN emitted :
                /\ emitted[i].event = lastEvt'.kind
                /\ emitted[i].data.time = lastEvt'.msg.time)
         => /\ eng'[c] = eng[c]
            /\ playerCalls' = <<>>
            /\ emitted' = <<>>]_vars

-----------------------------------------------------------------------------
(* Properties of scrubbing, checked under SpecScrub *)

SeeksOnWire(c) == SelectSeq(c2s[c], LAMBDA m : m.event = "video:seek")

\* C18: after two or more seekTo calls of a client within one debounce
\* window, exactly one video:seek of that client is on the wire and it
\* carries the time of the last call.
ScrubbingIsCoalesced ==
    \A c \in Conns :
        (lastEvt.client = c /\ lastEvt.kind = "seekTo" /\ Len(eng[c].timers) >= 2)
        => /\ Len(SeeksOnWire(c)) = 1
           /\ SeeksOnWire(c)[1].data.time = lastEvt.msg.time

-----------------------------------------------------------------------------
(* Properties of the tab's visibility, checked under SpecVisibility *)

\* C20: the seek a resume schedules targets the snapshot time plus the time
\* the tab was hidden when the snapshot was playing, and the snapshot time
\* when it was paused.
ResumeTargetIsProjected ==
    (lastEvt.kind = "visibilitychange" /\ lastEvt.fresh /\ lastEvt.msg.seeks)
    => LET e  == eng[lastEvt.client]
           tm == e.resumeTimers[Len(e.resumeTimers)]
       IN  tm.target = e.timeBeforeBlur +
                       (IF e.wasPlayingBeforeBlur THEN MsToSeconds(lastEvt.msg.since) ELSE 0)

-----------------------------------------------------------------------------
(* Properties of the whole system, checked under FairSpec *)

InFlight == \E c \in Conns : c2s[c] # <<>> \/ s2c[c] # <<>>

\* no play or pause in flight and every client's isPlaying is the authority's
Quiescent ==
    /\ ~InFlight
    /\ \A c \in Conns : eng[c].isPlaying = rooms[EngineRoom].isPlaying

\* a direction of the bounded wire is full
WireFull == \E c \in Conns : Len(c2s[c]) = MaxQueue \/ Len(s2c[c]) = MaxQueue

\* C4: after the (finitely many) user intents, with every message delivered,
\* the system comes to rest with no video:play or video:pause in flight and
\* every client's isPlaying equal to the authority's, and stays there.  Runs
\* that end with the bounded wire full are not held against the claim.
EventuallyConvergent == <>[](Quiescent \/ WireFull)

-----------------------------------------------------------------------------
(* Properties of the authority, checked under SpecAuthority *)

CurrentAnswers == {m \in sent : m.event = "video:current"}

\* C3: the snapshot answered to video:get_current carries the stored
\* currentTime plus (now - lastUpdated)/1000 when the room is playing, and
\* exactly the stored currentTime when it is not.
GetCurrentProjects ==
    lastOp.op = "video:get_current" =>
        \A m \in CurrentAnswers :
            LET room == rooms[lastOp.roomId]
            IN  IF room.isPlaying
                THEN m.payload.time * 1000 =
                        room.currentTime * 1000 + (now - room.lastUpdated) * UnitsPerSecond
                ELSE m.payload.time = room.currentTime

\* stored 10 s, playing, last write 5000 ms ago: the answer is 15 s
GetCurrentProjectsWitness ==
    /\ lastOp.op = "video:get_current"
    /\ RoomExists(lastOp.roomId)
    /\ rooms[lastOp.roomId].isPlaying
    /\ rooms[lastOp.roomId].currentTime = 10 * UnitsPerSecond
    /\ now - rooms[lastOp.roomId].lastUpdated = 5000
    /\ \E m \in CurrentAnswers : m.payload.time = 15 * UnitsPerSecond

\* C7: a video:get_current that follows video:load{videoId: X} with no
\* clock advance and no other applied event in between is answered with
\* videoId X, time 0 and isPlaying true.
LoadThenGetCurrent ==
    (/\ lastOp.op = "video:get_current"
     /\ applied[lastOp.roomId].kind = "video:load"
     /\ applied[lastOp.roomId].at = now)
    => /\ CurrentAnswers # {}
       /\ \A m \in CurrentAnswers :
            m.payload = [videoId |-> applied[lastOp.roomId].videoId,
                         time |-> 0, isPlaying |-> TRUE]

\* the load replaced an earlier event of the room, later on the clock
LoadThenGetCurrentWitness ==
    /\ lastOp.op = "video:get_current"
    /\ applied[lastOp.roomId].kind = "video:load"
    /\ applied[lastOp.roomId].at = now
    /\ now > 0
    /\ applied[lastOp.roomId].raced
    /\ \E m \in CurrentAnswers : m.payload.videoId = "Y"

\* C8: the video:current sent to a joiner carries the projected time, the
\* value video:get_current would answer at that moment.
JoinSendsProjectedSnapshot ==
    lastOp.op = "room:join" =>
        \A m \in CurrentAnswers :
            LET room == rooms[lastOp.roomId]
            IN  IF room.isPlaying
                THEN m.payload.time * 1000 =
                        room.currentTime * 1000 + (now - room.lastUpdated) * UnitsPerSecond
                ELSE m.payload.time = room.currentTime

LastWriterWins ==
    \A r \in DOMAIN rooms :
        applied[r].kind # "none" =>
            /\ rooms[r].currentVideoId = applied[r].videoId
            /\ rooms[r].currentTime = applied[r].time
            /\ rooms[r].isPlaying = applied[r].isPlaying

\* the last-arrived event is stamped before the event applied before it
LastWriterWinsWitness ==
    \E r \in DOMAIN rooms :
        /\ applied[r].kind = "video:play"
        /\ applied[r].older
        /\ rooms[r].isPlaying
        /\ rooms[r].currentTime = 10 * UnitsPerSecond

VideoKinds == {"video:load", "video:play", "video:pause", "video:seek",
               "video:sync", "video:force_sync"}

\* C11: what the authority broadcasts for an applied load, play, pause, seek,
\* sync or force_sync is the received event: it carries the sender's
\* original timestamp.
BroadcastIsReceivedEvent ==
    \A x \in sent :
        (x.event \in VideoKinds /\ RoomExists(lastOp.roomId))
        => /\ "timestamp" \in DOMAIN x.payload
           /\ x.payload.timestamp = applied[lastOp.roomId].timestamp

\* C12: an applied video:play, video:pause or video:sync leaves the stored
\* currentTime at the position projected from the room as it was before.
PassiveWritesFollowProjection ==
    [][(/\ lastOp'.op \in {"video:play", "video:pause", "video:sync"}
        /\ lastOp'.roomId \in DOMAIN rooms)
       => rooms'[lastOp'.roomId].currentTime = ProjectedTime(rooms[lastOp'.roomId], now)]_vars

GetCurrentAlwaysAnswers ==
    (lastOp.op = "video:get_current" /\ RoomExists(lastOp.roomId))
    => \E x \in sent :
          /\ sent = {x}
          /\ x.event = "video:current"
          /\ x.payload.time = ProjectedTime(rooms[lastOp.roomId], now)
          /\ x.payload.isPlaying = rooms[lastOp.roomId].isPlaying

-----------------------------------------------------------------------------
(* Properties of the observed authority, checked under SpecRequests *)

\* C13: of two successive video:get_current answers of a playing room with
\* no write in between, the second never reports a smaller time.
ProjectionIsMonotonic ==
    \A r \in DOMAIN rooms :
        (rooms[r].isPlaying /\ Len(answered[r]) = 2)
        => answered[r][2] >= answered[r][1]

\* two answers of a playing room one clock step apart, the second larger
ProjectionIsMonotonicWitness ==
    \E r \in DOMAIN rooms :
        /\ rooms[r].isPlaying
        /\ Len(answered[r]) = 2
        /\ answered[r][2] = answered[r][1] + MsToSeconds(5000)

\* C15: a video event whose roomId is missing or names no room changes no
\* room record and no connection, and nothing is sent for it (the handlers
\* never address the sender of such an event, so whatever is sent goes to
\* another client).
UnknownRoomIsNoOp ==
    [][(lastOp'.op \in VideoKinds /\ lastOp'.roomId \notin DOMAIN rooms)
       => /\ rooms' = rooms
          /\ socks' = socks
          /\ sent' = {}]_vars

-----------------------------------------------------------------------------
(* Properties of one client's page, checked under SpecPage and FairPage *)

EventsOf(kind) == SelectSeq(emitted, LAMBDA x : x.event = kind)

\* C21: a heartbeat tick of a ready, connected engine that is not seeking
\* emits exactly one video:sync, carrying the player's reading and the
\* engine's videoId and isPlaying, whether the video is playing or paused.
HeartbeatAlwaysReports ==
    (lastEvt.kind = "heartbeat" /\ lastEvt.fresh /\ ~lastEvt.msg.seeking) =>
        EventsOf("video:sync") =
            <<[event |-> "video:sync",
               data |-> StateReport(lastEvt.msg.videoId, lastEvt.msg.isPlaying,
                                    lastEvt.msg.reading)]>>

ForceSyncEmitted == EventsOf("video:force_sync") # <<>>

\* C22: in every execution in which the client stays ready and connected,
\* video:force_sync is emitted again and again.
ForceSyncRecurs ==
    <>[](eng[UnderTest].isReady /\ eng[UnderTest].isConnected) => []<>ForceSyncEmitted

\* C23: synchronizeNow() on a ready, connected engine emits exactly one
\* video:force_sync with the player's reading and the local isPlaying and
\* videoId; with no player attached or the transport down it emits nothing
\* and leaves the engine as it was.
SynchronizeNowEmitsOnce ==
    [][DoSynchronizeNow =>
          IF eng[UnderTest].isConnected /\ eng[UnderTest].isReady
          THEN emitted' =
                  <<[event |-> "video:force_sync",
                     data |-> StateReport(eng[UnderTest].currentVideoId,
                                          eng[UnderTest].isPlaying,
                                          lastEvt'.msg.reading)]>>
          ELSE emitted' = <<>> /\ eng' = eng]_vars

SynchronizeNowWitness ==
    /\ lastEvt.kind = "synchronizeNow"
    /\ lastEvt.fresh
    /\ eng[UnderTest].currentVideoId = PageVideo
    /\ ~eng[UnderTest].isPlaying
    /\ emitted = <<[event |-> "video:force_sync",
                    data |-> StateReport(PageVideo, FALSE, 2000)]>>

LocalSteps == {"loadVideo", "playVideo", "pauseVideo", "seekTo", "synchronizeNow",
               "heartbeat", "joinTimer"}

\* C24: while the transport is disconnected no local operation, no heartbeat
\* tick and no timer started before the disconnect emits anything.
NoEmitWhileDisconnected ==
    (lastEvt.kind \in LocalSteps /\ ~eng[lastEvt.client].isConnected) => emitted = <<>>

\* C25: a change of the connectivity flag leaves the client's local videoId,
\* time and isPlaying as they were.
StateSurvivesConnectivity ==
    [][Connectivity => Local(eng'[UnderTest]) = Local(eng[UnderTest])]_vars

\* C30: attaching the player emits exactly one video:get_current, and the
\* answer is applied whole: once a ready client has handled video:current its
\* local videoId, time and isPlaying are those of the snapshot.
ReadyAppliesSnapshot ==
    /\ (/\ lastEvt.kind = "setPlayerRef" /\ lastEvt.fresh /\ lastEvt.msg.attach
        /\ eng[lastEvt.client].isConnected)
          => Len(EventsOf("video:get_current")) = 1
    /\ (/\ lastEvt.kind = "video:current" /\ lastEvt.fresh
        /\ eng[lastEvt.client].isReady)
          => Local(eng[lastEvt.client]) =
                [videoId |-> lastEvt.msg.videoId, time |-> lastEvt.msg.time,
                 isPlaying |-> lastEvt.msg.isPlaying]

-----------------------------------------------------------------------------
(* The seeking flag, checked under SpecEngine *)

\* a pending timer whose callback sets seeking.current = false
ClearingTimerPending(e) ==
    \/ e.timers # <<>>
    \/ \E i \in DOMAIN e.resumeTimers : e.resumeTimers[i].kind # "syncWait"

\* C29: whenever seeking is true a timer that clears it is pending, so the
\* flag falls again within the settle window, also after seekTo with no
\* player attached.
SeekingAlwaysClears ==
    \A c \in Conns : eng[c].seeking => ClearingTimerPending(eng[c])

-----------------------------------------------------------------------------
(* Player faults, checked under SpecFaults *)

\* C26: when a player-control call throws during an engine operation or an
\* inbound event handler, the exception is caught inside the engine and
\* seeking and syncPending are both clear afterwards.
PlayerFaultsAreContained ==
    (lastEvt.fresh /\ "threw" \in DOMAIN lastEvt.msg) =>
        /\ lastEvt.msg.caught
        /\ ~eng[lastEvt.client].seeking
        /\ ~eng[lastEvt.client].syncPending

-----------------------------------------------------------------------------
(* Two rooms, checked under SpecRooms *)

\* C27: a video event, join, leave or disconnect addressed to an existing
\* room leaves every other room's record and existence as they were, and
\* what it emits goes only to sockets that are in the addressed room.
RoomsAreIndependent ==
    [][lastOp'.roomId \in DOMAIN rooms =>
          /\ \A r \in RoomIds \ {lastOp'.roomId} :
                /\ (r \in DOMAIN rooms') = (r \in DOMAIN rooms)
                /\ r \in DOMAIN rooms => rooms'[r] = rooms[r]
          /\ \A x \in sent' :
                lastOp'.roomId \in socks[x.to].joined \cup socks'[x.to].joined]_vars

\* a play applied to r1, delivered to its one member, while r2 holds a
\* different record with a member of its own
RoomsAreIndependentWitness ==
    /\ lastOp = [op |-> "video:play", roomId |-> "r1"]
    /\ DOMAIN rooms = {"r1", "r2"}
    /\ rooms["r1"].isPlaying /\ rooms["r1"].currentTime = 10 * UnitsPerSecond
    /\ rooms["r2"].currentVideoId = "Y" /\ Len(rooms["r2"].participants) = 1
    /\ sent # {}
    /\ \A x \in sent : "r1" \in socks[x.to].joined /\ "r2" \notin socks[x.to].joined

-----------------------------------------------------------------------------
(* The fallback transport, checked under SpecTabs *)

\* C28: a video event one tab emits on the BroadcastChannel fallback runs the
\* registered handlers of every other tab of the browser: no message a tab
\* takes from the channel is dropped.
ChannelReachesOtherTabs ==
    \A t \in Tabs :
        (mock.tabs[t].handled.event \in {"video:play", "video:load"})
            => mock.tabs[t].handled.ran

-----------------------------------------------------------------------------
(* The settle window and control intents, checked under SpecEngine *)

SeekToCalledIn(calls) == \E i \in DOMAIN calls : calls[i].fn = "seekTo"

\* C33: a video:sync received while seeking is set and the settle timer of
\* the current seek is still pending causes no seekTo call and leaves the
\* local time as it was.
SyncIgnoredWhileSeeking ==
    [][(RecvSync /\ eng[UnderTest].seeking /\ eng[UnderTest].timers # <<>>) =>
          /\ ~SeekToCalledIn(playerCalls')
          /\ eng'[UnderTest].currentTime = eng[UnderTest].currentTime]_vars

\* C35: the settle timer of an earlier seek does not fire into the window of
\* a later one: when a settle timer fires while another is still pending,
\* seeking stays true.
StaleTimerIsCancelled ==
    [][TimerFires =>
          (eng'[UnderTest].timers # <<>> => eng'[UnderTest].seeking)]_vars

\* C36: one playVideo() call of a ready, connected client emits exactly one
\* video:play, and one pauseVideo() call exactly one video:pause.
OneIntentOneMessage ==
    (/\ lastEvt.fresh
     /\ lastEvt.kind \in {"playVideo", "pauseVideo"}
     /\ eng[lastEvt.client].isReady /\ eng[lastEvt.client].isConnected) =>
        /\ lastEvt.kind = "playVideo" =>
              Len(EventsOf("video:play")) = 1 /\ Len(emitted) = 1
        /\ lastEvt.kind = "pauseVideo" =>
              Len(EventsOf("video:pause")) = 1 /\ Len(emitted) = 1

Receives ==
    RecvLoad \/ RecvPlay \/ RecvPause \/ RecvSeek \/ RecvSync \/ RecvForceSync

\* C37: while no player is attached an inbound video event changes neither
\* the local videoId nor the local time nor isPlaying.
InboundBufferedUntilReady ==
    [][(Receives /\ ~eng[UnderTest].isReady) =>
          Local(eng'[UnderTest]) = Local(eng[UnderTest])]_vars

-----------------------------------------------------------------------------
(* Resume and the settle window, checked under SpecVisibility and SpecSettle *)

ResumeAsked ==
    /\ lastEvt.kind = "visibilitychange"
    /\ lastEvt.fresh
    /\ ~lastEvt.msg.hidden
    /\ \E i \in DOMAIN emitted : emitted[i].event = "video:get_current"

\* C32: every resume that requests video:get_current for a snapshot past
\* position 0 is followed, once its timers have run, by the hard seek:
\* seekTo is called on the player.
ResumeLeadsToSeek ==
    [](ResumeAsked /\ eng[UnderTest].timeBeforeBlur > 0 => <>SeekToCalledIn(playerCalls))

Reports(out) ==
    \E i \in DOMAIN out : out[i].event \in {"video:sync", "video:play", "video:pause"}

\* C34: while seeking is set no heartbeat tick, player state change, tab-hide
\* snapshot or delayed broadcast, nor the notification effect that follows
\* it, emits video:sync, video:play or video:pause.
NoReportsWhileSeeking ==
    [][((Heartbeat \/ StateChanges \/ TabHidden \/ BroadcastFires)
        /\ eng[UnderTest].seeking) => ~Reports(emitted')]_vars

-----------------------------------------------------------------------------
(* Who may write a room, checked under SpecRooms *)

VideoEvents ==
    {"video:load", "video:play", "video:pause", "video:seek", "video:sync",
     "video:force_sync"}

\* C39: a video event that names room R and is applied to R's record or
\* broadcast into R was sent by a connection that has joined R and not left.
OnlyMembersWrite ==
    [][\A r \in RoomIds :
          (/\ lastOp'.op \in VideoEvents
           /\ lastOp'.roomId = r
           /\ applied'[r] # applied[r]
           /\ applied'[r].kind # "none") =>
             r \in socks[applied'[r].by].joined]_vars

-----------------------------------------------------------------------------
(* A member keeps its room, checked under SpecSameUser *)

\* C38: the room of a connection that joined it, is still connected and has
\* not left it exists, also when another connection with the same userId
\* leaves or disconnects.
MemberKeepsRoom ==
    \A c \in Conns, r \in RoomIds :
       (socks[c].connected /\ r \in socks[c].joined) => r \in DOMAIN rooms

-----------------------------------------------------------------------------
(* The late join, checked under SpecLateJoin *)

Canonical(room) ==
    [videoId |-> room.currentVideoId, isPlaying |-> room.isPlaying,
     time |-> ProjectedTime(room, now)]

\* C31: nothing the authority handles for a client that joins a room with a
\* video and attaches its player changes the room's currentVideoId,
\* isPlaying or projected time.
LateJoinLeavesRoomState ==
    [][AuthorityHandles => Canonical(rooms'[LateRoom]) = Canonical(rooms[LateRoom])]_vars

-----------------------------------------------------------------------------
(* The heartbeat interval, checked under SpecMount *)

\* C40: at most one heartbeat interval exists per hook, the one
\* syncIntervalRef holds, through every re-subscription of the periodic
\* effect; after the unmount none exists, so no tick fires or emits.
OneHeartbeatInterval ==
    LET h == hb[UnderTest]
    IN  /\ Cardinality(h.intervals) <= 1
        /\ h.intervals \subseteq {h.ref}
        /\ ~h.mounted => h.intervals = {}

\* the effect has subscribed more than once and the component has unmounted
OneHeartbeatIntervalWitness ==
    /\ hb[UnderTest].next >= 2
    /\ ~hb[UnderTest].mounted
    /\ lastEvt.kind = "unmount"
    /\ eng[UnderTest].isConnected /\ eng[UnderTest].isReady

====
